---------------------------- MODULE Spec2Model ----------------------------
(***************************************************************************)
(* Model of the IP-logger handlers of rimi28-cpu/ahh-test.                 *)
(*                                                                         *)
(* Part A models computeRadiusFromPolygon / haversineKm / numberOrNull of  *)
(* src/unnamed/part_000 as operators over JavaScript values.               *)
(* Part B models the request handler of src/unnamed/part_000.              *)
(*                                                                         *)
(* JavaScript numbers are modelled in fixed point:                         *)
(*   - degrees and kilometres: 1 unit = 1/NumScale  (1e-4)                 *)
(*   - radians and the dimensionless haversine terms: 1 unit = 1/RadScale  *)
(* together with the non-finite values NaN, +Infinity and -Infinity, which *)
(* propagate through the arithmetic as IEEE-754 prescribes.                *)
(***************************************************************************)
EXTENDS Integers, Sequences, FiniteSets, TLC

(***************************************************************************)
(* State of Part A: one caller applying computeRadiusFromPolygon to a      *)
(* polygon it holds, possibly twice.                                       *)
(*   polygon   the argument, as the caller holds it                        *)
(*   calls     number of calls made so far                                 *)
(*   out       outcome of the latest call (a return value or a throw)      *)
(*   prevOut   outcome of the call before it                               *)
(*   pts, centroid, maxKm   the locals of the latest call that reached     *)
(*             them: the resolved points, the accumulator object of the    *)
(*             reduce (after the division) and the running maximum         *)
(***************************************************************************)
VARIABLES polygon, calls, out, prevOut, pts, centroid, maxKm

varsA == <<polygon, calls, out, prevOut, pts, centroid, maxKm>>

(***************************************************************************)
(* State of Part B: the requests the handler of part_000 is serving.       *)
(*   env          process.env: which of BIGDATACLOUD_API_KEY and            *)
(*                DISCORD_WEBHOOK_URL are set                              *)
(*   method       req.method of each request                               *)
(*   pc           where each invocation stands: not yet entered, waiting   *)
(*                at `await fetch`, waiting at `await r.text()`, returned  *)
(*   geoRes       the Response object r of the geolocation fetch           *)
(*   ipData       the handler's local ipData                               *)
(*   polyOutcome  what the call of computeRadiusFromPolygon at line 122    *)
(*                did, if it was made                                      *)
(*   polyCalls    how many times the invocation has called                 *)
(*                computeRadiusFromPolygon                                 *)
(*   responses    the HTTP responses written to res, in order              *)
(*   outbound     the outbound requests issued, in order                   *)
(*   console      the lines written with console.warn / console.error      *)
(*   discord      the state of the promise returned by sendToDiscord       *)
(***************************************************************************)
VARIABLES env, method, pc, geoRes, ipData, polyOutcome, polyCalls,
          responses, outbound, console, discord

\* route[r]: the handler variant request r is routed to; headers[r]: the
\* response headers set with res.setHeader so far
VARIABLES route, headers

varsB == <<env, method, pc, geoRes, ipData, polyOutcome, polyCalls,
           responses, outbound, console, discord, route, headers>>

vars == <<varsA, varsB>>

(***************************************************************************)
(* JavaScript values                                                       *)
(***************************************************************************)
NumScale == 10^4
RadScale == 10^8
SplitK   == 10^4            \* RadScale = SplitK * SplitK

Num(v)   == [k |-> "num", v |-> v]          \* a finite number, v in fixed point
NaN      == [k |-> "nan"]
Inf(s)   == [k |-> "inf", sign |-> s]       \* s = 1 or -1
Null     == [k |-> "null"]
Undef    == [k |-> "undef"]
Str(cs)  == [k |-> "str", chars |-> cs]     \* cs: sequence of one-character strings
Arr(xs)  == [k |-> "arr", items |-> xs]
Obj(f)   == [k |-> "obj", f |-> f]          \* f: function from keys to values

Deg(d)   == Num(d * NumScale)               \* the number d (whole degrees or km)

IsFinite(x) == x.k = "num"
IsNumber(x) == x.k \in {"num", "nan", "inf"}     \* typeof x === 'number'
IsNullish(x) == x.k \in {"null", "undef"}        \* x == null

Abs(n) == IF n < 0 THEN -n ELSE n
Sgn(n) == IF n < 0 THEN -1 ELSE 1

(***************************************************************************)
(* IEEE-754 arithmetic on number values (finite part in fixed point)       *)
(***************************************************************************)
\* a + b
JAdd(a, b) ==
  IF a.k = "nan" \/ b.k = "nan" THEN NaN
  ELSE IF a.k = "inf" /\ b.k = "inf" THEN (IF a.sign = b.sign THEN a ELSE NaN)
  ELSE IF a.k = "inf" THEN a
  ELSE IF b.k = "inf" THEN b
  ELSE Num(a.v + b.v)

\* -a
JNeg(a) ==
  IF a.k = "num" THEN Num(-a.v)
  ELSE IF a.k = "inf" THEN Inf(-a.sign)
  ELSE NaN

\* a - b
JSub(a, b) == JAdd(a, JNeg(b))

\* a / n for an integer n >= 0 (pts.length, or the literal 2), to nearest;
\* 0 / 0 is NaN and x / 0 is an infinity
JDivN(a, n) ==
  IF a.k # "num" THEN a
  ELSE IF n = 0 THEN (IF a.v = 0 THEN NaN ELSE Inf(Sgn(a.v)))
  ELSE Num(Sgn(a.v) * ((2 * Abs(a.v) + n) \div (2 * n)))

\* Math.abs(a)
MathAbs(a) ==
  IF a.k = "num" THEN Num(Abs(a.v))
  ELSE IF a.k = "inf" THEN Inf(1)
  ELSE NaN

\* a <= b, false when either side is NaN
JLeq(a, b) ==
  IF a.k = "nan" \/ b.k = "nan" THEN FALSE
  ELSE IF a.k = "inf" THEN (a.sign = -1 \/ (b.k = "inf" /\ b.sign = 1))
  ELSE IF b.k = "inf" THEN b.sign = 1
  ELSE a.v <= b.v

\* a > b, false when either side is NaN
JGt(a, b) ==
  IF a.k = "nan" \/ b.k = "nan" THEN FALSE
  ELSE ~JLeq(a, b)

(***************************************************************************)
(* Fixed-point kernels at RadScale (arguments and results are integers)    *)
(***************************************************************************)
PiR     == 314159265
HalfPiR == 157079633
TwoPiR  == 628318531

\* x * y / RadScale without leaving 32 bits (|x|, |y| < 2^31 / SplitK)
MulR(x, y) ==
  LET ax == Abs(x)
      ay == Abs(y)
      xh == ax \div SplitK
      xl == ax % SplitK
      yh == ay \div SplitK
      yl == ay % SplitK
      m  == xh * yh + (xh * yl + xl * yh + (xl * yl) \div SplitK) \div SplitK
  IN  Sgn(x) * Sgn(y) * m

\* 10^8 = 5^8 * 4^4: the multiplication of the dividend is done in steps
DivFactors == <<5, 5, 5, 5, 5, 5, 5, 5, 4, 4, 4, 4>>

RECURSIVE DivLoop(_, _, _, _)
DivLoop(q, r, y, i) ==
  IF i > Len(DivFactors) THEN q
  ELSE LET f == DivFactors[i]
       IN  DivLoop(q * f + (r * f) \div y, (r * f) % y, y, i + 1)

\* x * RadScale / y for y # 0 (|y| < 2^31 / 5, |x / y| < 21)
DivR(x, y) ==
  LET ax == Abs(x)
      ay == Abs(y)
  IN  Sgn(x) * Sgn(y) * DivLoop(ax \div ay, ax % ay, ay, 1)

\* Newton's iteration r -> (r + x / r) / 2, until it stops decreasing
RECURSIVE SqrtLoop(_, _)
SqrtStep(x, r, n) == IF n < r THEN SqrtLoop(x, n) ELSE r
SqrtLoop(x, r) == SqrtStep(x, r, (r + DivR(x, r)) \div 2)

\* sqrt(x) for x >= 0, by Newton's iteration from above
SqrtR(x) ==
  IF x = 0 THEN 0
  ELSE SqrtLoop(x, IF x > RadScale THEN x ELSE RadScale)

\* 1 - x2 * inner / d : one Horner step of an alternating Taylor series
Horner(x2, d, inner) == RadScale - MulR(x2, inner) \div d

\* x reduced to (-pi, pi]
ReduceR(x) ==
  LET m == x % TwoPiR
  IN  IF m > PiR THEN m - TwoPiR ELSE m

\* r (1 - x2/6 (1 - x2/20 (1 - x2/42 (1 - x2/72 (1 - x2/110 (1 - x2/156))))))
SinPoly(r, x2) ==
  MulR(r, Horner(x2, 6, Horner(x2, 20, Horner(x2, 42, Horner(x2, 72,
          Horner(x2, 110, Horner(x2, 156, RadScale)))))))

\* sin(r) for |r| <= pi/2, by its Taylor series
SinSeries(r) == SinPoly(r, MulR(r, r))

\* 1 - x2/2 (1 - x2/12 (1 - x2/30 (1 - x2/56 (1 - x2/90 (1 - x2/132 (1 - x2/182))))))
CosPoly(x2) ==
  Horner(x2, 2, Horner(x2, 12, Horner(x2, 30, Horner(x2, 56,
         Horner(x2, 90, Horner(x2, 132, Horner(x2, 182, RadScale)))))))

\* cos(r) for |r| <= pi/2, by its Taylor series
CosSeries(r) == CosPoly(MulR(r, r))

\* sin(r) = sin(pi - r) = sin(-pi - r): r in (-pi, pi] folded into [-pi/2, pi/2]
FoldSin(r) ==
  IF r > HalfPiR THEN PiR - r
  ELSE IF r < -HalfPiR THEN -PiR - r
  ELSE r

SinR(x) == SinSeries(FoldSin(ReduceR(x)))

\* cos(r) = -cos(pi - r) for r in (pi/2, pi]
FoldCos(r) == IF r > HalfPiR THEN -CosSeries(PiR - r) ELSE CosSeries(r)

CosR(x) == FoldCos(Abs(ReduceR(x)))

\* t (1 - t2 (1/3 - t2 (1/5 - t2 (1/7 - t2 (1/9 - t2/11)))))
AtanPoly(t, t2) ==
  MulR(t, RadScale - MulR(t2, RadScale \div 3 - MulR(t2, RadScale \div 5
          - MulR(t2, RadScale \div 7 - MulR(t2, RadScale \div 9
          - MulR(t2, RadScale \div 11))))))

\* atan(t) for 0 <= t <= 0.42, by its Taylor series
AtanSeries(t) == AtanPoly(t, MulR(t, t))

\* atan(t) = 2 atan(t / (1 + sqrt(1 + t^2)))
AtanHalve(t) == DivR(t, RadScale + SqrtR(RadScale + MulR(t, t)))

\* atan(t) for 0 <= t <= 1
AtanR(t) == 4 * AtanSeries(AtanHalve(AtanHalve(t)))

\* atan2(y, x) for y >= 0, x >= 0, not both 0
Atan2R(y, x) ==
  IF y <= x THEN AtanR(DivR(y, x)) ELSE HalfPiR - AtanR(DivR(x, y))


(***************************************************************************)
(* Math.* and the arithmetic of haversineKm on number values               *)
(***************************************************************************)
MathSin(x) == IF x.k = "num" THEN Num(SinR(x.v)) ELSE NaN
MathCos(x) == IF x.k = "num" THEN Num(CosR(x.v)) ELSE NaN

MathSqrt(x) ==
  IF x.k = "num" THEN (IF x.v < 0 THEN NaN ELSE Num(SqrtR(x.v)))
  ELSE IF x.k = "inf" /\ x.sign = 1 THEN x
  ELSE NaN

\* atan2(y, x) for y >= 0
Atan2Pos(y, x) ==
  IF x = 0 /\ y = 0 THEN 0
  ELSE IF x < 0 THEN PiR - Atan2R(y, -x)
  ELSE Atan2R(y, x)

\* atan2(-y, x) = -atan2(y, x)
MathAtan2(y, x) ==
  IF y.k = "num" /\ x.k = "num"
  THEN Num(Sgn(y.v) * Atan2Pos(Abs(y.v), x.v))
  ELSE NaN

\* a * b for two dimensionless terms at RadScale
JMulR(a, b) ==
  IF a.k = "nan" \/ b.k = "nan" THEN NaN
  ELSE IF a.k = "inf" \/ b.k = "inf"
       THEN (IF (a.k = "num" /\ a.v = 0) \/ (b.k = "num" /\ b.v = 0) THEN NaN
             ELSE Inf((IF a.k = "inf" THEN a.sign ELSE Sgn(a.v))
                      * (IF b.k = "inf" THEN b.sign ELSE Sgn(b.v))))
  ELSE Num(MulR(a.v, b.v))

\* pi / 180 = 0.0174532925...: degrees at NumScale to radians at RadScale
ToRadFix(v) ==
  Sgn(v) * (Abs(v) * 174 + (Abs(v) * 53) \div 100 + (Abs(v) * 293) \div 100000)

\* const toRad = deg => (deg * Math.PI) / 180
toRad(deg) == IF deg.k = "num" THEN Num(ToRadFix(deg.v)) ELSE deg

\* Earth radius in km
R == 6371

\* faulty variant of KmOfRad: the Earth radius in miles
KmOfRadMiles(c) ==
  IF c.k = "num"
  THEN Num(Sgn(c.v) * (3959 * (Abs(c.v) \div SplitK) + (3959 * (Abs(c.v) % SplitK)) \div SplitK))
  ELSE IF c.k = "inf" THEN c
  ELSE NaN

\* R * c: radians at RadScale to kilometres at NumScale
KmOfRad(c) ==
  IF c.k = "num"
  THEN Num(Sgn(c.v) * (R * (Abs(c.v) \div SplitK) + (R * (Abs(c.v) % SplitK)) \div SplitK))
  ELSE IF c.k = "inf" THEN c
  ELSE NaN

\* 2 * x
JTwice(x) == JAdd(x, x)

\* a = sin(dLat/2)**2 + cos(toRad(lat1)) * cos(toRad(lat2)) * sin(dLon/2)**2
HavA(sLat, sLon, cos1, cos2) ==
  JAdd(JMulR(sLat, sLat), JMulR(JMulR(cos1, cos2), JMulR(sLon, sLon)))

\* c = 2 * Math.atan2(Math.sqrt(a), Math.sqrt(1 - a))
HavC(a) == JTwice(MathAtan2(MathSqrt(a), MathSqrt(JSub(Num(RadScale), a))))

haversineKm(lat1, lon1, lat2, lon2) ==
  KmOfRad(HavC(HavA(MathSin(JDivN(toRad(JSub(lat2, lat1)), 2)),
                    MathSin(JDivN(toRad(JSub(lon2, lon1)), 2)),
                    MathCos(toRad(lat1)),
                    MathCos(toRad(lat2)))))

(***************************************************************************)
(* Number(v) and numberOrNull(v)                                           *)
(***************************************************************************)
DigitVal(c) ==
  CASE c = "0" -> 0 [] c = "1" -> 1 [] c = "2" -> 2 [] c = "3" -> 3
    [] c = "4" -> 4 [] c = "5" -> 5 [] c = "6" -> 6 [] c = "7" -> 7
    [] c = "8" -> 8 [] c = "9" -> 9 [] OTHER -> -1

\* digits of cs from position i on: integer part, then fraction after "."
\* acc is the value so far at NumScale, w the weight of the next fraction
\* digit (0 before the "."), any says whether a digit was read
RECURSIVE ParseDec(_, _, _, _, _)
ParseDec(cs, i, acc, w, any) ==
  IF i > Len(cs) THEN (IF any THEN Num(acc) ELSE NaN)
  ELSE IF cs[i] = "." THEN (IF w = 0 THEN ParseDec(cs, i + 1, acc, NumScale, any) ELSE NaN)
  ELSE IF DigitVal(cs[i]) < 0 THEN NaN
  ELSE IF w = 0 THEN ParseDec(cs, i + 1, acc * 10 + DigitVal(cs[i]) * NumScale, 0, TRUE)
  ELSE ParseDec(cs, i + 1, acc + DigitVal(cs[i]) * (w \div 10), IF w \div 10 = 0 THEN 1 ELSE w \div 10, TRUE)

\* StringToNumber: "" is 0, a signed decimal literal is its value, else NaN
StringToNumber(cs) ==
  IF cs = <<>> THEN Num(0)
  ELSE IF cs[1] = "-" THEN JNeg(ParseDec(cs, 2, 0, 0, FALSE))
  ELSE IF cs[1] = "+" THEN ParseDec(cs, 2, 0, 0, FALSE)
  ELSE ParseDec(cs, 1, 0, 0, FALSE)

\* Number(v)
RECURSIVE ToNumber(_)
ToNumber(v) ==
  CASE v.k \in {"num", "nan", "inf"} -> v
    [] v.k = "null" -> Num(0)
    [] v.k = "undef" -> NaN
    [] v.k = "str" -> StringToNumber(v.chars)
    [] v.k = "arr" -> IF Len(v.items) = 0 THEN Num(0)
                      ELSE IF Len(v.items) > 1 THEN NaN
                      ELSE IF IsNullish(v.items[1]) THEN Num(0)
                      ELSE ToNumber(v.items[1])
    [] OTHER -> NaN

\* Number.isFinite(n) ? n : null
FiniteOrNull(n) == IF IsFinite(n) THEN n ELSE Null

numberOrNull(v) == IF IsNullish(v) THEN Null ELSE FiniteOrNull(ToNumber(v))


(***************************************************************************)
(* computeRadiusFromPolygon                                                *)
(***************************************************************************)
NoOutcome == [kind |-> "none"]
Throw(m)  == [kind |-> "throw", msg |-> m]
Return(v) == [kind |-> "return", value |-> v]

Pt(lat, lon) == [ok |-> TRUE, lat |-> lat, lon |-> lon]
BadPt(m)     == [ok |-> FALSE, msg |-> m]

\* p[key] / p.key: undefined when the property is absent
Get(p, key) ==
  IF p.k = "obj" THEN (IF key \in DOMAIN p.f THEN p.f[key] ELSE Undef)
  ELSE IF p.k = "arr" /\ key = "0" /\ Len(p.items) >= 1 THEN p.items[1]
  ELSE IF p.k = "arr" /\ key = "1" /\ Len(p.items) >= 2 THEN p.items[2]
  ELSE Undef

\* a ?? b
Coalesce(a, b) == IF IsNullish(a) THEN b ELSE a

\* faulty variant of LatFirst: the second component is not looked at
LatFirstIgnoresLon(a, b) ==
  /\ a.k # "nan"
  /\ JLeq(MathAbs(a), Deg(90))

\* !Number.isNaN(a) && Math.abs(a) <= 90 && Math.abs(b) <= 180
LatFirst(a, b) ==
  /\ a.k # "nan"
  /\ JLeq(MathAbs(a), Deg(90))
  /\ JLeq(MathAbs(b), Deg(180))

\* if (LatFirst) return { lat: a, lon: b }; return { lat: Number(p[1]), lon: Number(p[0]) }
ResolvePair(a, b) == IF LatFirst(a, b) THEN Pt(a, b) ELSE Pt(b, a)

\* if (lat == null || lon == null) throw ...; return { lat, lon }
ResolveLabelled(lat, lon) ==
  IF IsNullish(lat) \/ IsNullish(lon)
  THEN BadPt("Unrecognized polygon point")
  ELSE Pt(lat, lon)

\* p.latitude ?? p.lat ?? p[1]
LatOf(p) == Coalesce(Get(p, "latitude"), Coalesce(Get(p, "lat"), Get(p, "1")))

\* faulty variant of LonOf: lng is read before lon
LonOfLngFirst(p) ==
  Coalesce(Get(p, "longitude"),
           Coalesce(Get(p, "lng"), Coalesce(Get(p, "lon"), Get(p, "0"))))

\* p.longitude ?? p.lon ?? p.lng ?? p[0]
LonOf(p) ==
  Coalesce(Get(p, "longitude"),
           Coalesce(Get(p, "lon"), Coalesce(Get(p, "lng"), Get(p, "0"))))

\* the callback of polygon.map: a resolved point, or the error it throws
ResolvePoint(p) ==
  IF p.k = "arr" /\ Len(p.items) >= 2
  THEN ResolvePair(ToNumber(p.items[1]), ToNumber(p.items[2]))
  ELSE IF p.k \in {"arr", "obj"}
  THEN ResolveLabelled(numberOrNull(LatOf(p)), numberOrNull(LonOf(p)))
  ELSE BadPt("Unrecognized polygon point")

\* faulty variant of AccInit: one accumulator object kept at module level and
\* handed to every reduce, so that a call starts from what the last one left
AccInitShared == centroid

\* the initial value of the reduce: a fresh object { lat: 0, lon: 0 }
AccInit == [lat |-> Num(0), lon |-> Num(0)]

\* pts.reduce((acc, pt) => { acc.lat += pt.lat; acc.lon += pt.lon; return acc; }, ...)
RECURSIVE ReducePts(_, _, _)
ReducePts(ps, i, acc) ==
  IF i > Len(ps) THEN acc
  ELSE ReducePts(ps, i + 1, [lat |-> JAdd(acc.lat, ps[i].lat),
                             lon |-> JAdd(acc.lon, ps[i].lon)])

\* faulty variant of DivideAcc: the longitude sum is left undivided
DivideAccLatOnly(acc, n) == [lat |-> JDivN(acc.lat, n), lon |-> acc.lon]

\* centroid.lat /= pts.length; centroid.lon /= pts.length
DivideAcc(acc, n) == [lat |-> JDivN(acc.lat, n), lon |-> JDivN(acc.lon, n)]

\* faulty variant of Centroid: the sums are used as they are
CentroidNoDivide(ps) == ReducePts(ps, 1, AccInit)

Centroid(ps) == DivideAcc(ReducePts(ps, 1, AccInit), Len(ps))

\* if (d > maxKm) maxKm = d
MaxOf(d, m) == IF JGt(d, m) THEN d ELSE m

\* for (const pt of pts) { const d = haversineKm(centroid..., pt...); ... }
RECURSIVE MaxLoop(_, _, _, _)
MaxLoop(ps, c, i, m) ==
  IF i > Len(ps) THEN m
  ELSE MaxLoop(ps, c, i + 1,
               MaxOf(haversineKm(c.lat, c.lon, ps[i].lat, ps[i].lon), m))

\* Number(x.toFixed(2)): to the nearest 1/100, ties away from zero
toFixed2(x) ==
  IF x.k = "num"
  THEN Num(Sgn(x.v) * (((Abs(x.v) + NumScale \div 200) \div (NumScale \div 100))
                       * (NumScale \div 100)))
  ELSE x

\* the error of the first element whose callback throws
FirstError(mapped) ==
  mapped[CHOOSE j \in 1..Len(mapped) :
           ~mapped[j].ok /\ \A h \in 1..(j - 1) : mapped[h].ok].msg

\* return Number(maxKm.toFixed(2)), with the locals the call leaves behind
Finish(ps, c, m) ==
  [out |-> Return(toFixed2(m)), pts |-> ps, centroid |-> c, maxKm |-> m]

\* faulty variant of MaxInit: the running maximum is a module-level variable
\* that is not reset, so a call starts from what the last one left
MaxInitShared == maxKm

\* let maxKm = 0
MaxInit == Num(0)

RunPts(ps, c) == Finish(ps, c, MaxLoop(ps, c, 1, MaxInit))

RunMapped(mapped) ==
  IF \E i \in 1..Len(mapped) : ~mapped[i].ok
  THEN [out |-> Throw(FirstError(mapped))]
  ELSE RunPts(mapped, Centroid(mapped))

\* faulty variant of IsNonEmptyArray: the length is not looked at
IsArrayOnly(p) == p.k = "arr"

\* Array.isArray(polygon) && polygon.length !== 0
IsNonEmptyArray(p) == p.k = "arr" /\ Len(p.items) # 0

\* one call: its outcome and, when it got past the map, its locals
RunRadius(p) ==
  IF ~IsNonEmptyArray(p)
  THEN [out |-> Throw("Invalid polygon")]
  ELSE RunMapped([i \in 1..Len(p.items) |-> ResolvePoint(p.items[i])])

computeRadiusFromPolygon(p) == RunRadius(p).out


(***************************************************************************)
(* Part A: the inputs and the specification SpecRadius                     *)
(***************************************************************************)
MaxLen   == 3        \* longest polygon drawn
ShortLen == 2        \* polygons up to this length draw from all of ElemPool
MaxCalls == 2        \* calls made on one polygon

PairOf(x, y) == Arr(<<x, y>>)

\* raw polygon elements, as JSON.parse (or any caller) can deliver them
ElemPool ==
  { PairOf(Deg(200), Deg(45)),                       \* [200, 45]
    PairOf(Deg(-122), Deg(37)),                      \* [-122.0, 37.0]
    PairOf(Deg(90), Deg(180)),                       \* [90, 180]
    PairOf(Deg(45), Deg(200)),                       \* [45, 200]
    PairOf(Deg(37), Deg(-80)),                       \* [37, -80]
    PairOf(Deg(-80), Deg(37)),                       \* [-80, 37]
    PairOf(Str(<<"x">>), Deg(5)),                    \* ["x", 5]
    PairOf(Inf(1), Deg(5)),                          \* [Infinity, 5]  (JSON 1e999)
    Arr(<<Deg(5)>>),                                 \* [5]
    Obj([latitude |-> Num(515000), longitude |-> Num(-1200)]),   \* 51.5, -0.12
    Obj([lat |-> Num(516000), lon |-> Num(-1000)]),              \* 51.6, -0.1
    Obj([lat |-> Num(515000), lng |-> Num(-1200)]),              \* 51.5, -0.12
    Obj([latitude |-> Num(515000), lat |-> Deg(10),
         lon |-> Num(-1200), lng |-> Deg(7)]),
    Obj([foo |-> Deg(1)]),                           \* { foo: 1 }
    Null }

\* the elements the polygons longer than ShortLen are drawn from
CorePool ==
  { PairOf(Deg(200), Deg(45)),
    PairOf(Deg(-122), Deg(37)),
    PairOf(Str(<<"x">>), Deg(5)),
    Arr(<<Deg(5)>>),
    Obj([latitude |-> Num(515000), longitude |-> Num(-1200)]),
    Obj([lat |-> Num(516000), lon |-> Num(-1000)]) }

ArraysOf(m, pool) == { Arr([i \in 1..m |-> f[i]]) : f \in [1..m -> pool] }

ArraysUpTo(n) ==
  UNION { ArraysOf(m, IF m <= ShortLen THEN ElemPool ELSE CorePool) : m \in 1..n }

\* values that are not a non-empty array
NonPolygons ==
  { Arr(<<>>), Null, Undef, Obj([foo |-> Deg(1)]), Str(<<"x">>), Deg(5) }

\* [[-122.0, 37.0], [-122.0, 37.1], [-121.9, 37.0]]
SanFrancisco ==
  Arr(<< PairOf(Deg(-122), Deg(37)),
         PairOf(Deg(-122), Num(371000)),
         PairOf(Num(-1219000), Deg(37)) >>)

PolygonInputs == ArraysUpTo(MaxLen) \cup NonPolygons \cup {SanFrancisco}

NumReq == 2          \* request slots: invocations that can be in flight at once
Reqs == 1..NumReq

EmptyObj   == Obj([key \in {} |-> Null])       \* {}
NoResponse == [k |-> "none"]                   \* r before fetch has resolved

\* the requests of the slots in active have arrived and no invocation has
\* been entered; the other slots stay empty
SlotsServedBy(active, h) ==
  /\ route = [r \in Reqs |-> h]
  /\ headers = [r \in Reqs |-> {}]
  /\ pc = [r \in Reqs |-> IF r \in active THEN "start" ELSE "idle"]
  /\ polyCalls = [r \in Reqs |-> 0]
  /\ geoRes = [r \in Reqs |-> NoResponse]
  /\ ipData = [r \in Reqs |-> EmptyObj]
  /\ polyOutcome = [r \in Reqs |-> NoOutcome]
  /\ responses = [r \in Reqs |-> <<>>]
  /\ outbound = [r \in Reqs |-> <<>>]
  /\ console = [r \in Reqs |-> <<>>]
  /\ discord = [r \in Reqs |-> "none"]

SlotsAtStart(active) == SlotsServedBy(active, "part_000")

\* the handler before any of its invocations has been entered
HandlerAtStart == SlotsAtStart(Reqs)

\* Part A runs with no request around
NoRequests ==
  /\ env = [KEY |-> FALSE, WEBHOOK |-> FALSE]
  /\ method = [r \in Reqs |-> "GET"]
  /\ HandlerAtStart

InitA ==
  /\ polygon \in PolygonInputs
  /\ calls = 0
  /\ out = NoOutcome
  /\ prevOut = NoOutcome
  /\ pts = <<>>
  /\ centroid = [lat |-> Num(0), lon |-> Num(0)]
  /\ maxKm = Num(0)
  /\ NoRequests

\* the outcome r.out reaches the caller; the locals are those of the call
Land(r) ==
  /\ out' = r.out
  /\ IF r.out.kind = "return"
     THEN pts' = r.pts /\ centroid' = r.centroid /\ maxKm' = r.maxKm
     ELSE pts' = <<>> /\ UNCHANGED <<centroid, maxKm>>

\* the caller evaluates computeRadiusFromPolygon(polygon)
Call ==
  /\ calls < MaxCalls
  /\ Land(RunRadius(polygon))
  /\ prevOut' = out
  /\ calls' = calls + 1
  /\ UNCHANGED polygon
  /\ UNCHANGED varsB

NextA == Call

SpecRadius == InitA /\ [][NextA]_vars


(***************************************************************************)
(* Claims about computeRadiusFromPolygon (checked under SpecRadius)        *)
(***************************************************************************)
\* what the specification calls a coordinate that resolves: a value that
\* coerces to a finite number
CoercesFinite(v) == ToNumber(v).k = "num"

HasFiniteUnder(p, keys) ==
  \E key \in keys : key \in DOMAIN p.f /\ CoercesFinite(p.f[key])

\* an element that resolves to two finite numbers under the recognised shapes:
\* an ordered pair, or an object with a latitude and a longitude alias
CanResolve(p) ==
  \/ /\ p.k = "arr"
     /\ Len(p.items) >= 2
     /\ CoercesFinite(p.items[1])
     /\ CoercesFinite(p.items[2])
  \/ /\ p.k = "obj"
     /\ HasFiniteUnder(p, {"latitude", "lat"})
     /\ HasFiniteUnder(p, {"longitude", "lon", "lng"})

IsSequenceInput == polygon.k = "arr" /\ Len(polygon.items) >= 1

Called == calls >= 1

\* C1: for every input that is not a non-empty sequence (a non-array value,
\* or the empty array) the call fails with an error and returns no value.
C1_NotASequenceThrows ==
  (Called /\ ~IsSequenceInput) => out = Throw("Invalid polygon")

C1_Witness ==
  /\ Called
  /\ polygon = Arr(<<>>)
  /\ out.kind = "throw"

\* C2: for every non-empty polygon holding at least one element that cannot
\* be resolved to two finite numbers, the call fails with an error instead of
\* returning a number.
C2_UnresolvableElementThrows ==
  ( /\ Called
    /\ IsSequenceInput
    /\ \E i \in 1..Len(polygon.items) : ~CanResolve(polygon.items[i]) )
  => out.kind = "throw"

\* C3: every call throws or returns a finite number >= 0 that is the estimate
\* of its input: a returned number is never a stand-in (such as the 0 left
\* when every distance was NaN) for an input that has no estimate.
C3_ReturnIsEstimateNotSentinel ==
  (Called /\ out.kind = "return")
  => /\ out.value.k = "num"
     /\ out.value.v >= 0
     /\ \A i \in 1..Len(polygon.items) : CanResolve(polygon.items[i])
     /\ maxKm.k = "num"
     /\ \A i \in 1..Len(pts) : pts[i].lat.k = "num" /\ pts[i].lon.k = "num"

\* an ordered pair [x, y] of finite numbers
IsFinitePair(p) ==
  /\ p.k = "arr"
  /\ Len(p.items) >= 2
  /\ p.items[1].k = "num"
  /\ p.items[2].k = "num"

\* the point the axis-order rule assigns to the pair [x, y]
AxisRule(x, y) ==
  IF Abs(x.v) <= 90 * NumScale /\ Abs(y.v) <= 180 * NumScale
  THEN [lat |-> x, lon |-> y]
  ELSE [lat |-> y, lon |-> x]

SamePoint(pt, g) == pt.lat = g.lat /\ pt.lon = g.lon

\* C4: every ordered pair [x, y] of finite numbers is resolved as
\* (lat = x, lon = y) when |x| <= 90 and |y| <= 180 and otherwise as
\* (lat = y, lon = x); [200, 45] is resolved as lat 45, lon 200, and a pair
\* with both magnitudes <= 90 is taken as [lat, lon].
C4_AxisOrder ==
  (Called /\ out.kind = "return")
  => \A i \in 1..Len(polygon.items) :
       /\ IsFinitePair(polygon.items[i])
          => SamePoint(pts[i], AxisRule(polygon.items[i].items[1],
                                        polygon.items[i].items[2]))
       /\ polygon.items[i] = PairOf(Deg(200), Deg(45))
          => SamePoint(pts[i], [lat |-> Deg(45), lon |-> Deg(200)])
       /\ ( /\ IsFinitePair(polygon.items[i])
            /\ Abs(polygon.items[i].items[1].v) <= 90 * NumScale
            /\ Abs(polygon.items[i].items[2].v) <= 90 * NumScale )
          => SamePoint(pts[i], [lat |-> polygon.items[i].items[1],
                                lon |-> polygon.items[i].items[2]])

C4_Witness ==
  /\ Called
  /\ out.kind = "return"
  /\ \E i \in 1..Len(polygon.items) :
       /\ polygon.items[i] = PairOf(Deg(200), Deg(45))
       /\ pts[i].lat = Deg(45)
       /\ pts[i].lon = Deg(200)
  /\ \E i \in 1..Len(polygon.items) :
       \/ /\ polygon.items[i] = PairOf(Deg(90), Deg(180))
          /\ pts[i].lat = Deg(90)
       \/ /\ polygon.items[i] = PairOf(Deg(37), Deg(-80))
          /\ pts[i].lat = Deg(37)

\* a GeoPoint: latitude in [-90, 90], longitude in [-180, 180]
IsGeoPoint(pt) ==
  /\ pt.lat.k = "num"
  /\ pt.lon.k = "num"
  /\ Abs(pt.lat.v) <= 90 * NumScale
  /\ Abs(pt.lon.v) <= 180 * NumScale

\* C5: every point the call resolves and uses in the centroid and distance
\* computation is a GeoPoint, with latitude in [-90, 90] and longitude in
\* [-180, 180].
C5_ResolvedPointsInRange ==
  (Called /\ out.kind = "return")
  => \A i \in 1..Len(pts) : IsGeoPoint(pts[i])

\* a polygon every element of which resolves to two finite numbers
ValidPolygon ==
  /\ IsSequenceInput
  /\ \A i \in 1..Len(polygon.items) : CanResolve(polygon.items[i])

\* the sum of the latitudes (which = "lat") or longitudes of ps[1..n]
RECURSIVE SumCoord(_, _, _)
SumCoord(ps, n, which) ==
  IF n = 0 THEN Num(0)
  ELSE JAdd(SumCoord(ps, n - 1, which),
            IF which = "lat" THEN ps[n].lat ELSE ps[n].lon)

\* the arithmetic mean of the points, each position counted once
Mean(ps) ==
  [lat |-> JDivN(SumCoord(ps, Len(ps), "lat"), Len(ps)),
   lon |-> JDivN(SumCoord(ps, Len(ps), "lon"), Len(ps))]

DistancesFrom(c, ps) ==
  { haversineKm(c.lat, c.lon, ps[i].lat, ps[i].lon) : i \in 1..Len(ps) }

MaxIn(S) == CHOOSE d \in S : \A e \in S : e.v <= d.v

\* the largest distance between the mean of the points and a point
MaxDistance(ps) == MaxIn(DistancesFrom(Mean(ps), ps))

\* v >= 0 to the nearest multiple of u, ties upward
NearestMultiple(v, u) ==
  IF 2 * (v % u) >= u THEN (v \div u + 1) * u ELSE (v \div u) * u

\* C6 as stated: for every valid polygon the value returned is the maximum,
\* over the resolved points, of the distance between the point and the
\* centroid, the centroid being the arithmetic mean of the resolved points.
C6_ReturnsMaxDistance ==
  (Called /\ ValidPolygon) => out = Return(MaxDistance(pts))

\* C6 as amended: ... the value returned is that maximum rounded to two
\* decimal places.
C6_ReturnsRoundedMaxDistance ==
  (Called /\ ValidPolygon)
  => out = Return(Num(NearestMultiple(MaxDistance(pts).v, NumScale \div 100)))

C6_Witness ==
  /\ Called
  /\ ValidPolygon
  /\ Len(pts) = 3
  /\ pts[1] = pts[2]
  /\ pts[3] # pts[1]
  /\ out.kind = "return"
  /\ out.value.v > 0
  /\ out.value # maxKm

\* C7: for every polygon of any length >= 1 whose vertices are all the same
\* valid point, the call returns 0.
C7_RepeatedPointGivesZero ==
  ( /\ Called
    /\ ValidPolygon
    /\ \A i \in 1..Len(polygon.items) : polygon.items[i] = polygon.items[1] )
  => out = Return(Num(0))

C7_Witness ==
  /\ Called
  /\ ValidPolygon
  /\ Len(polygon.items) >= 2
  /\ \A i \in 1..Len(polygon.items) : polygon.items[i] = polygon.items[1]
  /\ pts[1].lat.v # 0
  /\ pts[1].lon.v # 0
  /\ out = Return(Num(0))

\* the value under the first of the keys that the object has
RECURSIVE FirstUnder(_, _, _)
FirstUnder(p, keys, i) ==
  IF i > Len(keys) THEN Undef
  ELSE IF keys[i] \in DOMAIN p.f THEN p.f[keys[i]]
  ELSE FirstUnder(p, keys, i + 1)

London ==
  Arr(<< Obj([latitude |-> Num(515000), longitude |-> Num(-1200)]),
         Obj([lat |-> Num(516000), lon |-> Num(-1000)]) >>)

\* C8: a labelled point resolves to the same GeoPoint under every recognised
\* alias: latitude is read from latitude or else lat, longitude from longitude
\* or else lon or else lng; the polygon mixing {latitude, longitude} and
\* {lat, lon} points at two distinct locations yields a non-zero finite
\* radius and does not throw.
C8_LabelAliases ==
  (Called /\ ValidPolygon)
  => /\ out.kind = "return"
     /\ \A i \in 1..Len(polygon.items) :
          polygon.items[i].k = "obj"
          => /\ pts[i].lat = FirstUnder(polygon.items[i], <<"latitude", "lat">>, 1)
             /\ pts[i].lon = FirstUnder(polygon.items[i], <<"longitude", "lon", "lng">>, 1)
     /\ polygon = London => (out.value.k = "num" /\ out.value.v > 0)

C8_Witness ==
  /\ Called
  /\ polygon = London
  /\ out.kind = "return"
  /\ out.value.v > 0
  /\ pts[1].lat = Num(515000)
  /\ pts[2].lon = Num(-1000)

Lit(s) == [k |-> "lit", s |-> s]

\* !v for the values modelled
Falsy(v) ==
  \/ IsNullish(v)
  \/ v.k = "nan"
  \/ v.k = "num" /\ v.v = 0
  \/ v.k = "str" /\ v.chars = <<>>

\* v || null
OrNull(v) == IF Falsy(v) THEN Null ELSE v

\* v || ''
OrEmpty(v) == IF Falsy(v) THEN Str(<<>>) ELSE v

\* the inner loop of tryPaths: follow parts from cur
RECURSIVE Walk(_, _, _)
Walk(cur, parts, i) ==
  IF i > Len(parts) THEN [ok |-> TRUE, v |-> cur]
  ELSE IF IsNullish(cur) THEN [ok |-> FALSE, v |-> Undef]
  ELSE Walk(Get(cur, parts[i]), parts, i + 1)

\* ok && cur !== undefined && cur !== null && cur !== ''
Usable(w) == w.ok /\ ~IsNullish(w.v) /\ ~(w.v.k = "str" /\ w.v.chars = <<>>)

\* tryPaths(...paths) over ipData, from the i-th path on
RECURSIVE tryPaths(_, _, _)
PickPath(w, data, paths, i) ==
  IF Usable(w) THEN w.v ELSE tryPaths(data, paths, i + 1)

tryPaths(data, paths, i) ==
  IF i > Len(paths) THEN Undef
  ELSE PickPath(Walk(data, paths[i], 1), data, paths, i)

OrgPaths ==
  << <<"network", "organisation">>, <<"organisation">>, <<"asnOrganisation">>,
     <<"network", "name">>, <<"operator">>, <<"isp">>,
     <<"organisationName">>, <<"organization">> >>

RegionPaths ==
  << <<"principalSubdivision">>, <<"location", "region">>, <<"region">>,
     <<"principalSubdivisionName">>, <<"principalSubdivisionCode">> >>

CityPaths == << <<"city">>, <<"locality">>, <<"location", "city">> >>

RadiusPaths == << <<"location", "accuracyRadius">>, <<"accuracyRadius">> >>

AreaPaths == << <<"confidenceArea">>, <<"location", "confidenceArea">> >>

AsnPaths ==
  << <<"network", "autonomousSystemNumber">>, <<"asn">>, <<"asnNumeric">>,
     <<"network", "asn">>, <<"autonomousSystemNumber">>, <<"autonomousSystem">> >>

\* String(v) and Number(v) throw a TypeError on a parsed JSON object that has
\* an own "toString" property (a JSON value is never callable, and the
\* inherited valueOf returns the object), and on an array holding one
RECURSIVE ToPrimitiveThrows(_)
ToPrimitiveThrows(v) ==
  \/ v.k = "obj" /\ "toString" \in DOMAIN v.f
  \/ /\ v.k = "arr"
     /\ \E i \in 1..Len(v.items) : ToPrimitiveThrows(v.items[i])

DigitChar(d) == <<"0", "1", "2", "3", "4", "5", "6", "7", "8", "9">>[d + 1]

\* the decimal digits of n >= 0
RECURSIVE DigitsOf(_)
DigitsOf(n) ==
  IF n < 10 THEN <<DigitChar(n)>>
  ELSE Append(DigitsOf(n \div 10), DigitChar(n % 10))

\* the digits after the point of f / NumScale, 0 < f < NumScale
RECURSIVE FracDigits(_)
FracDigits(f) ==
  IF f = 0 THEN <<>>
  ELSE <<DigitChar((f * 10) \div NumScale)>> \o FracDigits((f * 10) % NumScale)

\* Number::toString of a finite number
NumberToString(v) ==
  (IF v < 0 THEN <<"-">> ELSE <<>>)
  \o DigitsOf(Abs(v) \div NumScale)
  \o (IF Abs(v) % NumScale = 0 THEN <<>>
      ELSE <<".">> \o FracDigits(Abs(v) % NumScale))

\* String(v), as a sequence of characters
RECURSIVE ToStringJS(_)
RECURSIVE JoinItems(_, _)
JoinItems(xs, i) ==
  IF i > Len(xs) THEN <<>>
  ELSE (IF i > 1 THEN <<",">> ELSE <<>>)
       \o (IF IsNullish(xs[i]) THEN <<>> ELSE ToStringJS(xs[i]))
       \o JoinItems(xs, i + 1)

ToStringJS(v) ==
  CASE v.k = "str" -> v.chars
    [] v.k = "num" -> NumberToString(v.v)
    [] v.k = "nan" -> <<"N", "a", "N">>
    [] v.k = "inf" -> (IF v.sign < 0 THEN <<"-">> ELSE <<>>)
                      \o <<"I", "n", "f", "i", "n", "i", "t", "y">>
    [] v.k = "null" -> <<"n", "u", "l", "l">>
    [] v.k = "undef" -> <<"u", "n", "d", "e", "f", "i", "n", "e", "d">>
    [] v.k = "arr" -> JoinItems(v.items, 1)
    [] OTHER -> <<"[", "o", "b", "j", "e", "c", "t", " ",
                  "O", "b", "j", "e", "c", "t", "]">>

UpperCase ==
  <<"A", "B", "C", "D", "E", "F", "G", "H", "I", "J", "K", "L", "M",
    "N", "O", "P", "Q", "R", "S", "T", "U", "V", "W", "X", "Y", "Z">>

LowerCase ==
  <<"a", "b", "c", "d", "e", "f", "g", "h", "i", "j", "k", "l", "m",
    "n", "o", "p", "q", "r", "s", "t", "u", "v", "w", "x", "y", "z">>

toLowerChar(c) ==
  IF \E i \in 1..26 : UpperCase[i] = c
  THEN LowerCase[CHOOSE i \in 1..26 : UpperCase[i] = c]
  ELSE c

toLowerCase(cs) == [i \in 1..Len(cs) |-> toLowerChar(cs[i])]

\* cs has pat as a substring
Includes(cs, pat) ==
  \E i \in 0..(Len(cs) - Len(pat)) : SubSeq(cs, i + 1, i + Len(pat)) = pat

\* the alternatives of the regular expression of line 76
DatacenterWords ==
  { <<"v", "e", "r", "c", "e", "l">>,
    <<"d", "i", "g", "i", "t", "a", "l", "o", "c", "e", "a", "n">>,
    <<"a", "m", "a", "z", "o", "n">>,
    <<"g", "o", "o", "g", "l", "e">>,
    <<"c", "l", "o", "u", "d", "f", "l", "a", "r", "e">>,
    <<"a", "z", "u", "r", "e">>,
    <<"l", "i", "n", "o", "d", "e">>,
    <<"o", "v", "h">>,
    <<"h", "e", "t", "z", "n", "e", "r">>,
    <<"r", "a", "c", "k", "s", "p", "a", "c", "e">>,
    <<"a", "l", "i", "b", "a", "b", "a">>,
    <<"m", "i", "c", "r", "o", "s", "o", "f", "t">> }

\* /vercel|...|microsoft/i.test(cs)
TestDatacenter(cs) ==
  \E w \in DatacenterWords : Includes(toLowerCase(cs), w)

\* const orgCandidate = String(tryPaths(...) || '')
orgCandidate(data) == ToStringJS(OrEmpty(tryPaths(data, OrgPaths, 1)))

isDatacenter(data) == TestDatacenter(toLowerCase(orgCandidate(data)))

\* ipData?.localityInfo?.administrative
Administrative(data) == Get(Get(data, "localityInfo"), "administrative")

\* !found && administrative && Array.isArray(administrative)
ScansAdmins(found, data) ==
  /\ Falsy(found)
  /\ ~Falsy(Administrative(data))
  /\ Administrative(data).k = "arr"

\* Number(a.adminLevel) === 4 || Number(a.order) === 5
RegionPred(a) ==
  \/ ToNumber(Get(a, "adminLevel")) = Deg(4)
  \/ ToNumber(Get(a, "order")) = Deg(5)

\* Number(a.adminLevel) === 8 || [7,9].includes(Number(a.order))
CityPred(a) ==
  \/ ToNumber(Get(a, "adminLevel")) = Deg(8)
  \/ ToNumber(Get(a, "order")) \in {Deg(7), Deg(9)}

\* admins.find(pred) reads a property of null or undefined before it finds
RECURSIVE FindThrows(_, _, _)
FindThrows(admins, i, which) ==
  IF i > Len(admins) THEN FALSE
  ELSE IF IsNullish(admins[i]) THEN TRUE
  ELSE IF which = "region" /\ RegionPred(admins[i]) THEN FALSE
  ELSE IF which = "city" /\ CityPred(admins[i]) THEN FALSE
  ELSE FindThrows(admins, i + 1, which)

\* the region or the city extraction (lines 83-106) throws
AdminThrows(data) ==
  \/ /\ ScansAdmins(tryPaths(data, RegionPaths, 1), data)
     /\ FindThrows(Administrative(data).items, 1, "region")
  \/ /\ ScansAdmins(tryPaths(data, CityPaths, 1), data)
     /\ FindThrows(Administrative(data).items, 1, "city")

\* a statement before line 119 throws: String(...) of line 64, the finds of
\* lines 87 and 100, Number(...) in numberOrNull of line 118
ThrowsBeforeRadius(data) ==
  \/ ToPrimitiveThrows(OrEmpty(tryPaths(data, OrgPaths, 1)))
  \/ AdminThrows(data)
  \/ ToPrimitiveThrows(tryPaths(data, RadiusPaths, 1))

\* line 147 throws: asnRaw is truthy, not a number, and String(asnRaw) throws
AsnThrows(data) ==
  /\ ~Falsy(tryPaths(data, AsnPaths, 1))
  /\ ToPrimitiveThrows(tryPaths(data, AsnPaths, 1))

\* an Error object: its name and its message
Err(name, message) == [name |-> name, message |-> message]

\* String(err)
ErrString(e) == <<e.name, ": ", e.message>>

\* what the statements before line 119 throw
ErrorBeforeRadius(data) ==
  IF AdminThrows(data) /\ ~ToPrimitiveThrows(OrEmpty(tryPaths(data, OrgPaths, 1)))
  THEN Err("TypeError", "Cannot read properties of null (reading 'adminLevel')")
  ELSE Err("TypeError", "Cannot convert object to primitive value")

\* faulty variant of CatchPoly: nothing is caught around the call
NoCatchPoly(o) == o

\* try { ... } catch (e) { console.warn('poly->radius fail', e.message); }
CatchPoly(o) ==
  IF o.kind = "throw" THEN [kind |-> "caught", msg |-> o.msg] ELSE o

\* faulty variant of ComputedRadius: the reported radius is not looked at
ComputedRadiusAlways(reportedRadius, confidenceArea) ==
  IF ~Falsy(confidenceArea)
  THEN CatchPoly(computeRadiusFromPolygon(confidenceArea))
  ELSE NoOutcome

\* lines 120-123: the call is made when no radius was reported and there is
\* a confidence area; NoOutcome when it is not made
ComputedRadius(reportedRadius, confidenceArea) ==
  IF IsNullish(reportedRadius) /\ ~Falsy(confidenceArea)
  THEN CatchPoly(computeRadiusFromPolygon(confidenceArea))
  ELSE NoOutcome

\* the value of computedRadius after line 123
RadiusOf(po) == IF po.kind = "return" THEN po.value ELSE Null

\* lines 124-125
\* faulty variant of finalRadius: line 125 is missing
finalRadiusUnsuppressed(reportedRadius, computedRadius, dc) ==
  Coalesce(reportedRadius, computedRadius)

\* lines 124-125
finalRadius(reportedRadius, computedRadius, dc) ==
  IF dc THEN Null ELSE Coalesce(reportedRadius, computedRadius)

\* finalRadius && finalRadius > 1000 ? '...' : null
accuracyNote(fr) ==
  IF ~Falsy(fr) /\ JGt(fr, Deg(1000))
  THEN Lit("Large radius - coarse geolocation or cloud IP")
  ELSE Null

\* the fields of structuredData that are modelled
structuredData(data, reportedRadius, confidenceArea, po) ==
  [ reportedAccuracyRadius |-> reportedRadius,
    computedAccuracyRadius |-> RadiusOf(po),
    accuracyRadius |-> finalRadius(reportedRadius, RadiusOf(po), isDatacenter(data)),
    accuracyNote |-> accuracyNote(finalRadius(reportedRadius, RadiusOf(po),
                                              isDatacenter(data))),
    confidenceArea |-> confidenceArea,
    organization |-> IF orgCandidate(data) = <<>> THEN Lit("Unknown")
                     ELSE Str(orgCandidate(data)),
    isDatacenter |-> isDatacenter(data) ]

\* the 'Accuracy (km)' field of the embed built by sendToDiscord (line 293)
AccuracyField(d) ==
  IF ~IsNullish(d.accuracyRadius)
  THEN [value |-> d.accuracyRadius, suffix |-> ""]
  ELSE IF ~IsNullish(d.computedAccuracyRadius)
  THEN [value |-> d.computedAccuracyRadius, suffix |-> " (computed)"]
  ELSE [value |-> Lit("N/A"), suffix |-> ""]

\* res.status(status).json(body)
Reply(status, body) == [status |-> status, body |-> body]

\* the console.warn of line 122, when the catch ran
PolyLines(po) ==
  IF po.kind = "caught"
  THEN <<[level |-> "warn", text |-> "poly->radius fail", detail |-> po.msg]>>
  ELSE <<>>

\* the catch block of the handler (lines 197-200)
OuterCatch(err, po) ==
  [ response |-> Reply(500, [success |-> FALSE, error |-> ErrString(err)]),
    lines |-> PolyLines(po)
              \o <<[level |-> "error", text |-> "handler err", detail |-> err.message]>>,
    poly |-> po ]

\* line 196, with what was logged on the way
Success(sd, po) ==
  [ response |-> Reply(200, [success |-> TRUE, data |-> sd]),
    lines |-> PolyLines(po),
    poly |-> po ]

\* lines 124-200, given what the call of line 122 did
Settle(data, reportedRadius, confidenceArea, po) ==
  IF po.kind = "throw" THEN OuterCatch(Err("Error", po.msg), po)
  ELSE IF AsnThrows(data)
  THEN OuterCatch(Err("TypeError", "Cannot convert object to primitive value"), po)
  ELSE Success(structuredData(data, reportedRadius, confidenceArea, po), po)

\* lines 118-200
AfterExtraction(data, reportedRadius, confidenceArea) ==
  Settle(data, reportedRadius, confidenceArea,
         ComputedRadius(reportedRadius, confidenceArea))

\* lines 46-200: the handler from the point where ipData is settled
HandleData(data) ==
  IF ThrowsBeforeRadius(data)
  THEN OuterCatch(ErrorBeforeRadius(data), NoOutcome)
  ELSE AfterExtraction(data,
                       numberOrNull(tryPaths(data, RadiusPaths, 1)),
                       OrNull(tryPaths(data, AreaPaths, 1)))

(***************************************************************************)
(* The answers of the geolocation provider                                 *)
(***************************************************************************)
Amazon == Str(<<"A", "m", "a", "z", "o", "n", ".", "c", "o", "m">>)
Comcast == Str(<<"C", "o", "m", "c", "a", "s", "t">>)

\* parsed bodies (JSON.parse(txt))
GeoBodies ==
  { EmptyObj,
    Null,
    Obj([location |-> Obj([accuracyRadius |-> Deg(50)]), confidenceArea |-> London]),
    Obj([accuracyRadius |-> Deg(0), confidenceArea |-> London]),
    Obj([accuracyRadius |-> Str(<<"x">>), confidenceArea |-> London]),
    Obj([accuracyRadius |-> Deg(2000), isp |-> Comcast]),
    Obj([confidenceArea |-> London, organisation |-> Comcast, asn |-> Deg(7922)]),
    Obj([location |-> Obj([confidenceArea |-> SanFrancisco])]),
    Obj([confidenceArea |-> Arr(<<PairOf(Str(<<"x">>), Deg(5))>>)]),
    Obj([confidenceArea |-> Arr(<<>>)]),
    Obj([confidenceArea |-> Str(<<"a", "b", "c">>)]),
    Obj([confidenceArea |-> Arr(<<PairOf(Deg(-122), Deg(37)), Null>>)]),
    Obj([confidenceArea |-> Arr(<<>>), asn |-> Obj([toString |-> Deg(1)])]),
    Obj([confidenceArea |-> London, asn |-> Obj([toString |-> Deg(1)])]),
    Obj([confidenceArea |-> Arr(<<>>),
         localityInfo |-> Obj([administrative |-> Arr(<<Null>>)])]),
    Obj([confidenceArea |-> Arr(<<>>), organisation |-> Obj([toString |-> Deg(1)])]),
    Obj([confidenceArea |-> London, network |-> Obj([organisation |-> Amazon])]),
    Obj([confidenceArea |-> Arr(<<>>), network |-> Obj([organisation |-> Amazon])]),
    Obj([location |-> Obj([accuracyRadius |-> Deg(50)]), organisation |-> Amazon]) }

\* what r.text() can resolve to
GeoTexts ==
  { [kind |-> "empty"], [kind |-> "garbage"] }
  \cup { [kind |-> "json", value |-> b] : b \in GeoBodies }

\* try { ipData = txt ? JSON.parse(txt) : {}; } catch (e) { ipData = {}; }
ParseText(txt) == IF txt.kind = "json" THEN txt.value ELSE EmptyObj

Methods == {"GET", "POST", "OPTIONS"}

\* Part B runs with no caller of Part A around
NoCaller ==
  /\ polygon = Null
  /\ calls = 0
  /\ out = NoOutcome
  /\ prevOut = NoOutcome
  /\ pts = <<>>
  /\ centroid = [lat |-> Num(0), lon |-> Num(0)]
  /\ maxKm = Num(0)

\* one request, of any method, under any environment
InitB ==
  /\ env \in [KEY : BOOLEAN, WEBHOOK : BOOLEAN]
  /\ \E m \in Methods : method = [r \in Reqs |-> IF r = 1 THEN m ELSE "GET"]
  /\ SlotsAtStart({1})
  /\ NoCaller

(***************************************************************************)
(* The steps of one invocation                                             *)
(***************************************************************************)
CorsHeaders ==
  { "Access-Control-Allow-Origin", "Access-Control-Allow-Methods",
    "Access-Control-Allow-Headers" }

\* faulty variant of Enters: the headers are not set
EntersWithoutCors(r, h) ==
  /\ route[r] = h
  /\ pc[r] = "start"
  /\ UNCHANGED headers

\* the handler variant h is entered for request r: the three res.setHeader
\* calls that every variant starts with
Enters(r, h) ==
  /\ route[r] = h
  /\ pc[r] = "start"
  /\ headers' = [headers EXCEPT ![r] = CorsHeaders]

\* line 11: if (req.method === 'OPTIONS') return res.status(200).end()
Preflight(r) ==
  /\ Enters(r, "part_000")
  /\ method[r] = "OPTIONS"
  /\ responses' = [responses EXCEPT ![r] = Append(@, Reply(200, [empty |-> TRUE]))]
  /\ pc' = [pc EXCEPT ![r] = "done"]
  /\ UNCHANGED <<route, env, method, geoRes, ipData, polyOutcome, polyCalls, outbound, console, discord>>
  /\ UNCHANGED varsA

\* line 29: if (!KEY) return res.status(500).json(...)
MissingKey(r) ==
  /\ Enters(r, "part_000")
  /\ method[r] # "OPTIONS"
  /\ ~env.KEY
  /\ responses' = [responses EXCEPT ![r] =
       Append(@, Reply(500, [success |-> FALSE,
                             error |-> <<"Missing BIGDATACLOUD_API_KEY">>]))]
  /\ pc' = [pc EXCEPT ![r] = "done"]
  /\ UNCHANGED <<route, env, method, geoRes, ipData, polyOutcome, polyCalls, outbound, console, discord>>
  /\ UNCHANGED varsA

\* lines 13-37: up to the point where fetch(GEO_URL) has been issued
StartFetch(r) ==
  /\ Enters(r, "part_000")
  /\ method[r] # "OPTIONS"
  /\ env.KEY
  /\ outbound' = [outbound EXCEPT ![r] = Append(@, [to |-> "geo"])]
  /\ pc' = [pc EXCEPT ![r] = "fetch"]
  /\ UNCHANGED <<route, env, method, geoRes, ipData, polyOutcome, polyCalls, responses, console, discord>>
  /\ UNCHANGED varsA

\* the fetch resolves with a Response; the handler goes on to await r.text()
FetchResolves(r) ==
  /\ route[r] = "part_000"
  /\ pc[r] = "fetch"
  /\ \E ok \in BOOLEAN : geoRes' = [geoRes EXCEPT ![r] = [k |-> "response", ok |-> ok]]
  /\ pc' = [pc EXCEPT ![r] = "text"]
  /\ UNCHANGED <<headers, route, env, method, ipData, polyOutcome, polyCalls, responses, outbound, console, discord>>
  /\ UNCHANGED varsA

\* calls of computeRadiusFromPolygon behind the outcome po of line 122
CallsMade(po) == IF po.kind = "none" THEN 0 ELSE 1

\* the working memory of computeRadiusFromPolygon after the handler's call:
\* a call that got past the map leaves its locals, as in Part A
CallLands(po, run) ==
  IF po.kind = "return"
  THEN /\ pts' = run.pts
       /\ centroid' = run.centroid
       /\ maxKm' = run.maxKm
       /\ UNCHANGED <<polygon, calls, out, prevOut>>
  ELSE UNCHANGED varsA

\* lines 46-200 run to the end with ipData = data, after the lines logged
\* by the fetch block; h is HandleData(data)
Finishes(r, data, logged, h) ==
  /\ ipData' = [ipData EXCEPT ![r] = data]
  /\ polyOutcome' = [polyOutcome EXCEPT ![r] = h.poly]
  /\ polyCalls' = [polyCalls EXCEPT ![r] = @ + CallsMade(h.poly)]
  /\ CallLands(h.poly, RunRadius(OrNull(tryPaths(data, AreaPaths, 1))))
  /\ console' = [console EXCEPT ![r] = @ \o logged \o h.lines]
  /\ responses' = [responses EXCEPT ![r] = Append(@, h.response)]
  /\ IF h.response.status = 200 /\ env.WEBHOOK
     THEN /\ outbound' = [outbound EXCEPT ![r] =
                Append(@, [to |-> "discord",
                           accuracy |-> AccuracyField(h.response.body.data)])]
          /\ discord' = [discord EXCEPT ![r] = "pending"]
     ELSE UNCHANGED <<outbound, discord>>
  /\ pc' = [pc EXCEPT ![r] = "done"]
  /\ UNCHANGED <<headers, route, env, method, geoRes>>

FetchErrorLine == <<[level |-> "warn", text |-> "Fetch error:", detail |-> ""]>>

\* line 40: if (!r.ok) console.warn('BigDataCloud non-ok:', ...)
NonOkLines(res) ==
  IF res.ok THEN <<>>
  ELSE <<[level |-> "warn", text |-> "BigDataCloud non-ok:", detail |-> ""]>>

\* the fetch rejects: the catch of line 41 sets ipData = {} and the handler
\* runs to its end
FetchRejects(r) ==
  /\ route[r] = "part_000"
  /\ pc[r] = "fetch"
  /\ Finishes(r, EmptyObj, FetchErrorLine, HandleData(EmptyObj))

\* r.text() resolves with one of texts: lines 39-40, then the handler runs
\* to its end
TextResolvesFrom(r, texts) ==
  /\ route[r] = "part_000"
  /\ pc[r] = "text"
  /\ \E txt \in texts :
       Finishes(r, ParseText(txt), NonOkLines(geoRes[r]), HandleData(ParseText(txt)))

TextResolves(r) == TextResolvesFrom(r, GeoTexts)

\* r.text() rejects: as when the fetch rejects
TextRejects(r) ==
  /\ route[r] = "part_000"
  /\ pc[r] = "text"
  /\ Finishes(r, EmptyObj, FetchErrorLine, HandleData(EmptyObj))

\* the promise of sendToDiscord settles; on a rejection the .catch of line
\* 192 logs it
DiscordSettles(r) ==
  /\ route[r] = "part_000"
  /\ discord[r] = "pending"
  /\ \E ok \in BOOLEAN :
       /\ discord' = [discord EXCEPT ![r] = IF ok THEN "sent" ELSE "failed"]
       /\ console' = [console EXCEPT ![r] =
            IF ok THEN @
            ELSE Append(@, [level |-> "warn", text |-> "discord send fail",
                            detail |-> ""])]
  /\ UNCHANGED <<headers, route, env, method, pc, geoRes, ipData, polyOutcome, polyCalls, responses, outbound>>
  /\ UNCHANGED varsA

NextB ==
  \E r \in Reqs :
    \/ Preflight(r)
    \/ MissingKey(r)
    \/ StartFetch(r)
    \/ FetchResolves(r)
    \/ FetchRejects(r)
    \/ TextResolves(r)
    \/ TextRejects(r)
    \/ DiscordSettles(r)

SpecHandler == InitB /\ [][NextB]_vars

(***************************************************************************)
(* Interleaved invocations: every slot holds a GET request, the key is     *)
(* set, and the provider answers from a few bodies; the invocations take   *)
(* their steps in any order.                                               *)
(***************************************************************************)
FewTexts ==
  { [kind |-> "json", value |-> b] :
      b \in { Obj([confidenceArea |-> London]),
              Obj([location |-> Obj([confidenceArea |-> SanFrancisco])]),
              Obj([confidenceArea |-> Arr(<<>>)]),
              Obj([location |-> Obj([accuracyRadius |-> Deg(50)]),
                   confidenceArea |-> London]) } }

InitInterleaved ==
  /\ env = [KEY |-> TRUE, WEBHOOK |-> FALSE]
  /\ method = [r \in Reqs |-> "GET"]
  /\ HandlerAtStart
  /\ NoCaller

TextResolvesFew(r) == TextResolvesFrom(r, FewTexts)

NextInterleaved ==
  \E r \in Reqs :
    \/ StartFetch(r)
    \/ FetchResolves(r)
    \/ FetchRejects(r)
    \/ TextResolvesFew(r)
    \/ TextRejects(r)

SpecInterleaved == InitInterleaved /\ [][NextInterleaved]_vars


(***************************************************************************)
(* Claims about the handler of part_000 (checked under SpecHandler)        *)
(***************************************************************************)
\* the call of line 122 was made and threw
PolyThrew(r) == polyOutcome[r].kind \in {"caught", "throw"}

Returned(r) == pc[r] = "done"

\* the one response of request r is the 200 success response, with
\* computedAccuracyRadius null and no error in its body
Ends200WithoutRadius(r) ==
  /\ Len(responses[r]) = 1
  /\ responses[r][1].status = 200
  /\ DOMAIN responses[r][1].body = {"success", "data"}
  /\ responses[r][1].body.success = TRUE
  /\ responses[r][1].body.data.computedAccuracyRadius = Null

\* the one response of request r is a 500 whose error is that of line 147,
\* not the one computeRadiusFromPolygon raised
Ends500OnAsn(r) ==
  /\ Len(responses[r]) = 1
  /\ responses[r][1].status = 500
  /\ responses[r][1].body.error
       = ErrString(Err("TypeError", "Cannot convert object to primitive value"))
  /\ responses[r][1].body.error # ErrString(Err("Error", polyOutcome[r].msg))

\* C10 as stated: whenever computeRadiusFromPolygon throws, the request
\* still ends with a 200 success response in which computedAccuracyRadius is
\* null and no part of the raised error appears; the error is never
\* propagated to the end user as a 500.
C10_PolyThrowStillEnds200 ==
  \A r \in Reqs : (Returned(r) /\ PolyThrew(r)) => Ends200WithoutRadius(r)

\* C10 as amended: whenever computeRadiusFromPolygon throws, the error is
\* caught and logged and never reaches a response; the request ends with a
\* 200 success response in which computedAccuracyRadius is null, unless the
\* later String(asnRaw) of line 147 throws on its own, in which case the 500
\* carries that other error and not the one computeRadiusFromPolygon raised.
C10_PolyThrowAbsorbed ==
  \A r \in Reqs :
    (Returned(r) /\ PolyThrew(r))
    => /\ polyOutcome[r].kind = "caught"
       /\ \E i \in 1..Len(console[r]) :
            console[r][i] = [level |-> "warn", text |-> "poly->radius fail",
                             detail |-> polyOutcome[r].msg]
       /\ IF AsnThrows(ipData[r]) THEN Ends500OnAsn(r) ELSE Ends200WithoutRadius(r)

C10_Witness ==
  \E r \in Reqs :
    /\ Returned(r)
    /\ polyOutcome[r] = [kind |-> "caught", msg |-> "Invalid polygon"]
    /\ Ends200WithoutRadius(r)
    /\ responses[r][1].body.data.confidenceArea = Arr(<<>>)
    /\ responses[r][1].body.data.accuracyRadius = Null

ReportedTo(r) == numberOrNull(tryPaths(ipData[r], RadiusPaths, 1))

\* the confidence area the provider sent to request r
AreaSentTo(r) == OrNull(tryPaths(ipData[r], AreaPaths, 1))

\* request r was answered with the 200 success response
Succeeded(r) ==
  /\ Returned(r)
  /\ Len(responses[r]) = 1
  /\ responses[r][1].status = 200
  /\ "data" \in DOMAIN responses[r][1].body

DataOf(r) == responses[r][1].body.data

\* the reported radius when there is one, otherwise the computed radius,
\* otherwise null
ReportedElseComputed(r) ==
  IF ~IsNullish(ReportedTo(r)) THEN ReportedTo(r)
  ELSE IF polyOutcome[r].kind = "return" THEN polyOutcome[r].value
  ELSE Null

\* the radius is computed at most once per request, and only when no radius
\* was reported and a confidence area is present
ComputedOnceWhenNeeded(r) ==
  /\ polyCalls[r] <= 1
  /\ polyCalls[r] = 1 => (IsNullish(ReportedTo(r)) /\ ~IsNullish(AreaSentTo(r)))

\* C12 as stated: the radius is computed at most once per request, and only
\* when the provider reported no accuracy radius and a confidence area is
\* present; the final accuracyRadius is the reported radius when there is
\* one, otherwise the computed radius, otherwise null.
C12_RadiusOnceAndFinal ==
  \A r \in Reqs :
    /\ ComputedOnceWhenNeeded(r)
    /\ Succeeded(r) => DataOf(r).accuracyRadius = ReportedElseComputed(r)

\* C12 as amended: ... the final accuracyRadius is null when the organisation
\* is classified as a datacenter, and otherwise the reported radius when
\* there is one, otherwise the computed radius, otherwise null.
C12_RadiusOnceAndFinalUnlessDatacenter ==
  \A r \in Reqs :
    /\ ComputedOnceWhenNeeded(r)
    /\ Succeeded(r)
       => DataOf(r).accuracyRadius
            = IF DataOf(r).isDatacenter THEN Null ELSE ReportedElseComputed(r)

C12_Witness ==
  \E r \in Reqs :
    /\ Succeeded(r)
    /\ polyCalls[r] = 1
    /\ IsNullish(ReportedTo(r))
    /\ ~DataOf(r).isDatacenter
    /\ polyOutcome[r].kind = "return"
    /\ DataOf(r).accuracyRadius = polyOutcome[r].value
    /\ DataOf(r).accuracyRadius.k = "num"
    /\ DataOf(r).accuracyRadius.v > 0

(***************************************************************************)
(* Further claims about computeRadiusFromPolygon (under SpecRadius)        *)
(***************************************************************************)
\* C13: for the polygon [[-122.0, 37.0], [-122.0, 37.1], [-121.9, 37.0]]
\* computeRadiusFromPolygon resolves every pair as [lon, lat] (latitude about
\* 37, longitude about -122) and returns a radius between 5 and 15 km.
C13_SanFranciscoRadius ==
  (Called /\ polygon = SanFrancisco)
  => /\ out.kind = "return"
     /\ Len(pts) = 3
     /\ \A i \in 1..3 :
          /\ pts[i].lat = polygon.items[i].items[2]
          /\ pts[i].lon = polygon.items[i].items[1]
          /\ Abs(pts[i].lat.v - 37 * NumScale) <= NumScale
          /\ Abs(pts[i].lon.v + 122 * NumScale) <= NumScale
     /\ out.value.k = "num"
     /\ out.value.v >= 5 * NumScale
     /\ out.value.v <= 15 * NumScale

C13_Witness ==
  /\ Called
  /\ polygon = SanFrancisco
  /\ out.kind = "return"
  /\ pts[2].lat = Num(371000)
  /\ pts[3].lon = Num(-1219000)
  /\ out.value.v > 7 * NumScale
  /\ out.value.v < 9 * NumScale

\* the organisation named in the answer to request r contains one of the
\* words of the datacenter pattern
NamesDatacenter(r) ==
  /\ DataOf(r).organization.k = "str"
  /\ \E w \in DatacenterWords :
       \E i \in 0..Len(DataOf(r).organization.chars) :
         /\ i + Len(w) <= Len(DataOf(r).organization.chars)
         /\ \A j \in 1..Len(w) :
              toLowerChar(DataOf(r).organization.chars[i + j]) = w[j]

\* C15: whenever the network organisation matches the datacenter pattern
\* (isDatacenter is true), accuracyRadius in the response is null, regardless
\* of the reported radius and of the radius computed from the confidence
\* area.
C15_DatacenterSuppressesRadius ==
  \A r \in Reqs :
    Succeeded(r)
    => /\ NamesDatacenter(r) <=> DataOf(r).isDatacenter
       /\ DataOf(r).isDatacenter => DataOf(r).accuracyRadius = Null

\* a datacenter request that carried a reported radius, or for which a
\* radius was computed, has been answered with accuracyRadius null
C15_Witness ==
  \E r \in Reqs :
    /\ Succeeded(r)
    /\ NamesDatacenter(r)
    /\ DataOf(r).isDatacenter
    /\ DataOf(r).accuracyRadius = Null
    /\ \/ DataOf(r).reportedAccuracyRadius = Deg(50)
       \/ /\ DataOf(r).computedAccuracyRadius.k = "num"
          /\ DataOf(r).computedAccuracyRadius.v > 0

\* the notifications sent to Discord for request r
Notifications(r) ==
  { i \in 1..Len(outbound[r]) : outbound[r][i].to = "discord" }

\* C16: for a request classified as datacenter the suppression is complete:
\* the Discord notification's 'Accuracy (km)' field shows 'N/A' and no radius
\* value (reported or computed) is shown to the notification's reader.
C16_DatacenterNotificationShowsNA ==
  \A r \in Reqs :
    (Succeeded(r) /\ DataOf(r).isDatacenter)
    => \A i \in Notifications(r) :
         /\ outbound[r][i].accuracy.value = Lit("N/A")
         /\ outbound[r][i].accuracy.suffix = ""

\* the i-th element is an ordered pair of two different finite numbers that
\* was resolved with its first component as the latitude
TakenLatLon(i) ==
  /\ IsFinitePair(polygon.items[i])
  /\ polygon.items[i].items[1] # polygon.items[i].items[2]
  /\ pts[i].lat = polygon.items[i].items[1]
  /\ pts[i].lon = polygon.items[i].items[2]

\* ... with its first component as the longitude
TakenLonLat(i) ==
  /\ IsFinitePair(polygon.items[i])
  /\ polygon.items[i].items[1] # polygon.items[i].items[2]
  /\ pts[i].lat = polygon.items[i].items[2]
  /\ pts[i].lon = polygon.items[i].items[1]

KeepsRadius ==
  /\ UNCHANGED <<env, method, route, polyOutcome, polyCalls>>
  /\ UNCHANGED varsA

\* the handler variant h continues for request r at the await named at
At(r, h, at) == route[r] = h /\ pc[r] = at

\* faulty variant of Responds: the reply is sent a second time
RespondsTwice(r, reply) ==
  /\ responses' = [responses EXCEPT ![r] = Append(Append(@, reply), reply)]
  /\ pc' = [pc EXCEPT ![r] = "done"]

\* return res.status(..)...: the handler's promise settles after the reply
Responds(r, reply) ==
  /\ responses' = [responses EXCEPT ![r] = Append(@, reply)]
  /\ pc' = [pc EXCEPT ![r] = "done"]

\* fetch(url, ...) is issued and awaited at the await named at
Fetches(r, msg, at) ==
  /\ outbound' = [outbound EXCEPT ![r] = Append(@, msg)]
  /\ pc' = [pc EXCEPT ![r] = at]

Logs(r, level, text) ==
  console' = [console EXCEPT ![r] =
                Append(@, [level |-> level, text |-> text, detail |-> ""])]

\* how an awaited fetch settles
FetchOutcomes == {"ok", "non-ok", "rejects"}

\* ipData?.a?.b
Opt(data, parts) == Walk(data, parts, 1).v

IsString(v) == v.k \in {"str", "lit"}

\* `${v}` throws for v
TemplateThrows(v) == ToPrimitiveThrows(v)

\* JSON.parse(rawText) throws
ParseThrows(txt) == txt.kind # "json"

\* the Response of the geolocation fetch of request r, its body not read yet
Answered(o) == [k |-> "response", ok |-> o = "ok", body |-> "unread"]

\* what reading the body of the geolocation Response of request r gave:
\* "unreadable" when text() or json() rejects, "unparsable" when JSON.parse
\* throws, "parsed" for a JSON value, "text" for the text of a non-ok answer
\* that is only logged
BodyGave(r, what) == geoRes' = [geoRes EXCEPT ![r].body = what]

\* a confidence area of 21 points, one more than a batch of line 490 holds
ManyPoints == Arr([i \in 1..21 |-> PairOf(Deg(-122), Deg(37))])

High == Str(<<"h", "i", "g", "h">>)

\* the parsed bodies the variants of Part C are run on
LoggerBodies ==
  { EmptyObj,
    Null,
    Obj([confidence |-> High, confidenceArea |-> SanFrancisco,
         location |-> Obj([latitude |-> Deg(37), longitude |-> Deg(-122)]),
         country |-> Obj([isoAlpha2 |-> Str(<<"U", "S">>)])]),
    Obj([confidenceArea |-> Arr(<<PairOf(Str(<<"x">>), Deg(5)),
                                  PairOf(Deg(200), Deg(45))>>)]),
    Obj([confidence |-> Deg(5), confidenceArea |-> SanFrancisco]),
    Obj([network |-> Obj([autonomousSystemNumber |-> Obj([toString |-> Deg(1)])])]),
    Obj([network |-> Obj([autonomousSystemNumber |-> Deg(7922)])]),
    Obj([location |-> Obj([confidence |-> Deg(5)])]),
    Obj([confidenceArea |-> ManyPoints]) }

\* what response.text() can resolve to
LoggerTexts ==
  { [kind |-> "empty"], [kind |-> "garbage"] }
  \cup { [kind |-> "json", value |-> b] : b \in LoggerBodies }

(***************************************************************************)
(* log.js, /pages/api/ip-logger.js                                         *)
(***************************************************************************)
\* faulty variant of IsValidPoint: the longitude is not range-checked
IsValidPointLatOnly(point) ==
  /\ point.k = "arr"
  /\ Len(point.items) >= 2
  /\ IsNumber(point.items[1])
  /\ IsNumber(point.items[2])
  /\ point.items[1].k = "num"
  /\ point.items[2].k = "num"
  /\ JLeq(MathAbs(point.items[2]), Deg(90))

\* lines 92-99: the point is kept (typeof number, not NaN, within range)
IsValidPoint(point) ==
  /\ point.k = "arr"
  /\ Len(point.items) >= 2
  /\ IsNumber(point.items[1])
  /\ IsNumber(point.items[2])
  /\ point.items[1].k # "nan"
  /\ point.items[2].k # "nan"
  /\ JLeq(MathAbs(point.items[2]), Deg(90))
  /\ JLeq(MathAbs(point.items[1]), Deg(180))

\* lines 90-111: map and filter, from the i-th element on; index is the
\* position in confidenceArea, counted from 0
RECURSIVE CoordinatesFrom(_, _)
CoordinatesFrom(area, i) ==
  IF i > Len(area) THEN <<>>
  ELSE (IF IsValidPoint(area[i])
        THEN <<[index |-> i - 1, longitude |-> area[i].items[1],
                latitude |-> area[i].items[2]]>>
        ELSE <<>>) \o CoordinatesFrom(area, i + 1)

\* line 100: validPointCount++ in the callback, from the i-th element on
RECURSIVE ValidPointCount(_, _)
ValidPointCount(area, i) ==
  IF i > Len(area) THEN 0
  ELSE (IF IsValidPoint(area[i]) THEN 1 ELSE 0) + ValidPointCount(area, i + 1)

\* x.toFixed(d) for d = 6 or 2: the string of x to d decimals.  The numbers
\* of the model have four decimals, so six keep the value and two round it
Fixed(x, d) ==
  [k |-> "fixed", digits |-> d, n |-> IF d = 2 THEN toFixed2(x) ELSE x]

\* lines 116-117
Lats(coordinates) ==
  [i \in 1..Len(coordinates) |-> coordinates[i].latitude]
Lons(coordinates) ==
  [i \in 1..Len(coordinates) |-> coordinates[i].longitude]

\* Math.min(...xs) and Math.max(...xs) of a non-empty list of finite numbers
MathMin(xs) ==
  xs[CHOOSE i \in 1..Len(xs) : \A j \in 1..Len(xs) : xs[i].v <= xs[j].v]
MathMax(xs) ==
  xs[CHOOSE i \in 1..Len(xs) : \A j \in 1..Len(xs) : xs[j].v <= xs[i].v]

\* lines 124-131
BoundsFrom(minLat, maxLat, minLon, maxLon) ==
  [ minLat |-> Fixed(minLat, 6), maxLat |-> Fixed(maxLat, 6),
    minLon |-> Fixed(minLon, 6), maxLon |-> Fixed(maxLon, 6),
    latRange |-> Fixed(JSub(maxLat, minLat), 6),
    lonRange |-> Fixed(JSub(maxLon, minLon), 6) ]

\* degrees * 111.32, in km
KmPerDegree(d) == Num(111 * d.v + (32 * d.v) \div 100)

\* lines 134-152: center and heightKm (latKm).  widthKm, areaKm2 and
\* aspectRatio are further toFixed strings, of lonKm and of products and
\* quotients of latKm and lonKm; toFixed of any number returns a string
StatisticsFrom(minLat, maxLat, minLon, maxLon) ==
  [ center |-> [ latitude |-> Fixed(JDivN(JAdd(minLat, maxLat), 2), 6),
                 longitude |-> Fixed(JDivN(JAdd(minLon, maxLon), 2), 6) ],
    heightKm |-> Fixed(KmPerDegree(JSub(maxLat, minLat)), 2) ]

\* the one value of the expression a singleton set was built from
TheOne(S) == CHOOSE x \in S : TRUE

\* lines 115-153 for the coordinates kept and the count of line 100; the
\* four extremes are computed once, as in lines 119-122
WithBounds(coordinates, validPointCount) ==
  IF validPointCount > 0
  THEN TheOne({ [ bounds |-> BoundsFrom(minLat, maxLat, minLon, maxLon),
                  statistics |-> StatisticsFrom(minLat, maxLat, minLon, maxLon) ] :
                  minLat \in {MathMin(Lats(coordinates))},
                  maxLat \in {MathMax(Lats(coordinates))},
                  minLon \in {MathMin(Lons(coordinates))},
                  maxLon \in {MathMax(Lons(coordinates))} })
  ELSE [ bounds |-> Null, statistics |-> Null ]

\* confidenceData after lines 86-153, for the coordinates kept, the count of
\* line 100 and the bounds and statistics of lines 115-153
ProcessedArea(pointCount, coordinates, validPointCount, extent) ==
  [ hasData |-> TRUE,
    pointCount |-> pointCount,
    validPointCount |-> validPointCount,
    coordinates |-> coordinates,
    bounds |-> extent.bounds,
    statistics |-> extent.statistics ]

ProcessArea(items, coordinates, validPointCount) ==
  TheOne({ ProcessedArea(Len(items), coordinates, validPointCount, extent) :
             extent \in {WithBounds(coordinates, validPointCount)} })

\* lines 69-158 for confidenceArea = area (ipData?.confidenceArea || null)
ConfidenceOf(area) ==
  IF area.k = "arr"
  THEN TheOne({ ProcessArea(area.items, coordinates, validPointCount) :
                  coordinates \in {CoordinatesFrom(area.items, 1)},
                  validPointCount \in {ValidPointCount(area.items, 1)} })
  ELSE [ hasData |-> FALSE, pointCount |-> 0, validPointCount |-> 0,
         coordinates |-> <<>>, bounds |-> Null, statistics |-> Null ]

confidenceData(data) == ConfidenceOf(OrNull(Opt(data, <<"confidenceArea">>)))

\* line 64: ipData?.confidence || 'unknown'
confidence(data) ==
  IF Falsy(Opt(data, <<"confidence">>)) THEN Lit("unknown")
  ELSE Opt(data, <<"confidence">>)

\* a statement of lines 52-250 outside the inner try blocks throws: the
\* template of line 62 on asnNumber, isNaN and the template of lines 220-221
\* on latitude and longitude
IpLoggerBodyThrows(data) ==
  \/ /\ ~Falsy(Opt(data, <<"network", "autonomousSystemNumber">>))
     /\ TemplateThrows(Opt(data, <<"network", "autonomousSystemNumber">>))
  \/ /\ ~Falsy(Opt(data, <<"location", "latitude">>))
     /\ ~Falsy(Opt(data, <<"location", "longitude">>))
     /\ \/ ToPrimitiveThrows(Opt(data, <<"location", "latitude">>))
        \/ ToPrimitiveThrows(Opt(data, <<"location", "longitude">>))

\* sendMainWebhook throws while building the embed (line 374:
\* data.location.confidence.toUpperCase())
MainEmbedThrows(data) == ~IsString(confidence(data))

\* faulty variant of WantsConfidence: the confidence webhooks are sent
\* whatever the confidence area holds
WantsConfidenceAlways(data) == TRUE

\* line 267: the confidence webhooks are to be sent
WantsConfidence(data) ==
  confidenceData(data).hasData /\ Len(confidenceData(data).coordinates) > 0

\* the POSTs sendConfidenceWebhooks makes (lines 484, 522, 561)
ConfidencePosts(data) ==
  IF Len(confidenceData(data).coordinates) > 20 THEN 3
  ELSE IF Len(confidenceData(data).coordinates) > 0 THEN 2
  ELSE 1

WebhookResult(sent, error) == [sent |-> sent, error |-> error]

NotSent == WebhookResult(FALSE, Null)

\* lines 293-301: what the response tells of confidenceData c; mapUrl is set
\* at line 198 when three or more coordinates were kept
ConfidenceSummary(c) ==
  [ hasData |-> c.hasData,
    pointCount |-> c.pointCount,
    validPoints |-> c.validPointCount,
    bounds |-> c.bounds,
    statistics |-> c.statistics,
    mapUrl |-> IF Len(c.coordinates) >= 3 THEN Lit("openstreetmap") ELSE Null,
    sampleCoordinates |->
      SubSeq(c.coordinates, 1,
             IF Len(c.coordinates) < 5 THEN Len(c.coordinates) ELSE 5) ]

\* lines 290-303
IpLoggerSuccess(data, main, conf) ==
  Reply(200, [ success |-> TRUE,
               confidence |-> ConfidenceSummary(confidenceData(data)),
               webhooks |-> [main |-> main, confidence |-> conf] ])

\* lines 305-312
IpLoggerCatch ==
  Reply(500, [success |-> FALSE, error |-> <<"Internal server error">>])

\* line 7
IpLoggerPreflight(r) ==
  /\ Enters(r, "ip-logger")
  /\ method[r] = "OPTIONS"
  /\ Responds(r, Reply(200, [empty |-> TRUE]))
  /\ UNCHANGED <<geoRes, ipData, outbound, console, discord>>
  /\ KeepsRadius

\* lines 25-29
IpLoggerMissingKey(r) ==
  /\ Enters(r, "ip-logger")
  /\ method[r] # "OPTIONS"
  /\ ~env.KEY
  /\ Responds(r, Reply(500, [success |-> FALSE,
                             error |-> <<"Missing BIGDATACLOUD_API_KEY">>]))
  /\ Logs(r, "error", "DEBUG: Missing BIGDATACLOUD_API_KEY")
  /\ UNCHANGED <<geoRes, ipData, outbound, discord>>
  /\ KeepsRadius

\* lines 9-38: up to await fetch(GEO_URL)
IpLoggerStartFetch(r) ==
  /\ Enters(r, "ip-logger")
  /\ method[r] # "OPTIONS"
  /\ env.KEY
  /\ Fetches(r, [to |-> "geo"], "geo")
  /\ UNCHANGED <<geoRes, ipData, responses, console, discord>>
  /\ KeepsRadius

\* lines 38-50: the geolocation fetch settles
IpLoggerFetchSettles(r) ==
  /\ At(r, "ip-logger", "geo")
  /\ \E o \in FetchOutcomes :
       /\ geoRes' = [geoRes EXCEPT ![r] = IF o = "rejects" THEN @ ELSE Answered(o)]
       /\ IF o = "ok"
          THEN /\ pc' = [pc EXCEPT ![r] = "geo-text"]
               /\ UNCHANGED <<responses, console>>
          ELSE IF o = "non-ok"
          THEN /\ Responds(r, Reply(502, [success |-> FALSE,
                                          error |-> <<"API error: ", "status">>]))
               /\ Logs(r, "error", "DEBUG: API error")
          ELSE /\ Responds(r, Reply(500, [success |-> FALSE,
                                          error |-> <<"Failed to fetch data">>]))
               /\ Logs(r, "error", "DEBUG: Fetch failed:")
  /\ UNCHANGED <<headers, ipData, outbound, discord>>
  /\ KeepsRadius

\* lines 252-263 with ipData = data: up to the first await of the webhook
\* block, or to the reply when nothing is awaited
IpLoggerAfterParse(r, data) ==
  /\ ipData' = [ipData EXCEPT ![r] = data]
  /\ IF IpLoggerBodyThrows(data)
     THEN /\ Responds(r, IpLoggerCatch)
          /\ Logs(r, "error", "Handler error:")
          /\ UNCHANGED <<outbound, discord>>
     ELSE IF ~env.WEBHOOK
     THEN /\ Responds(r, IpLoggerSuccess(data, NotSent, NotSent))
          /\ Logs(r, "warn", "DEBUG: No DISCORD_WEBHOOK_URL set")
          /\ UNCHANGED <<outbound, discord>>
     ELSE IF MainEmbedThrows(data)
     THEN /\ Responds(r, IpLoggerSuccess(data,
                 WebhookResult(FALSE, Lit("toUpperCase is not a function")),
                 NotSent))
          /\ Logs(r, "error", "DEBUG: Main webhook failed:")
          /\ UNCHANGED <<outbound, discord>>
     ELSE /\ Fetches(r, [to |-> "discord", part |-> "main"], "main")
          /\ discord' = [discord EXCEPT ![r] = "pending"]
          /\ UNCHANGED <<responses, console>>

\* lines 44-50: response.text() settles, with one of texts or rejected
IpLoggerTextSettlesFrom(r, texts) ==
  /\ At(r, "ip-logger", "geo-text")
  /\ \/ \E txt \in texts :
          IF ParseThrows(txt)
          THEN /\ BodyGave(r, "unparsable")
               /\ Responds(r, Reply(500, [success |-> FALSE,
                                          error |-> <<"Failed to fetch data">>]))
               /\ Logs(r, "error", "DEBUG: Fetch failed:")
               /\ UNCHANGED <<ipData, outbound, discord>>
          ELSE /\ BodyGave(r, "parsed")
               /\ IpLoggerAfterParse(r, txt.value)
     \/ /\ BodyGave(r, "unreadable")
        /\ Responds(r, Reply(500, [success |-> FALSE,
                                   error |-> <<"Failed to fetch data">>]))
        /\ Logs(r, "error", "DEBUG: Fetch failed:")
        /\ UNCHANGED <<ipData, outbound, discord>>
  /\ UNCHANGED headers
  /\ KeepsRadius

\* lines 263-265 and 407-412: the POST of sendMainWebhook settles
IpLoggerMainSettles(r) ==
  /\ At(r, "ip-logger", "main")
  /\ \E o \in FetchOutcomes :
       IF o = "ok"
       THEN IF WantsConfidence(ipData[r])
            THEN /\ Fetches(r, [to |-> "discord", part |-> "confidence"], "confidence")
                 /\ discord' = [discord EXCEPT ![r] = "main-sent"]
                 /\ Logs(r, "log", "DEBUG: Main webhook sent")
                 /\ UNCHANGED responses
            ELSE /\ Responds(r, IpLoggerSuccess(ipData[r],
                                                WebhookResult(TRUE, Null), NotSent))
                 /\ discord' = [discord EXCEPT ![r] = "main-sent"]
                 /\ Logs(r, "log", "DEBUG: No confidence data to send separate webhook")
                 /\ UNCHANGED outbound
       ELSE IF o = "non-ok"
       THEN /\ pc' = [pc EXCEPT ![r] = "main-text"]
            /\ UNCHANGED <<responses, outbound, console, discord>>
       ELSE /\ Responds(r, IpLoggerSuccess(ipData[r],
                    WebhookResult(FALSE, Lit("fetch failed")), NotSent))
            /\ discord' = [discord EXCEPT ![r] = "failed"]
            /\ Logs(r, "error", "DEBUG: Main webhook failed:")
            /\ UNCHANGED outbound
  /\ UNCHANGED <<headers, geoRes, ipData>>
  /\ KeepsRadius

\* lines 414-415 and 281-284: response.text() of the non-ok Discord answer
\* settles, and sendMainWebhook throws either way
IpLoggerMainTextSettles(r) ==
  /\ At(r, "ip-logger", "main-text")
  /\ \E resolved \in BOOLEAN :
       Responds(r, IpLoggerSuccess(ipData[r],
           WebhookResult(FALSE, IF resolved THEN Lit("Discord API: status")
                                ELSE Lit("body unreadable")),
           NotSent))
  /\ discord' = [discord EXCEPT ![r] = "failed"]
  /\ Logs(r, "error", "DEBUG: Main webhook failed:")
  /\ UNCHANGED <<headers, geoRes, ipData, outbound>>
  /\ KeepsRadius

\* the confidence POSTs made so far for request r
ConfidencePosted(r) ==
  Cardinality({ i \in 1..Len(outbound[r]) :
                  outbound[r][i] = [to |-> "discord", part |-> "confidence"] })

\* lines 271-277 and 484-566: a POST of sendConfidenceWebhooks settles.  A
\* rejected fetch throws to the catch of line 275; the status of a resolved
\* one is not looked at (no response.ok test after lines 484, 522, 561), so
\* a non-ok answer lets the function go on as an ok one does
IpLoggerConfidenceSettles(r) ==
  /\ At(r, "ip-logger", "confidence")
  /\ \E o \in FetchOutcomes :
       IF o = "rejects"
       THEN /\ Responds(r, IpLoggerSuccess(ipData[r], WebhookResult(TRUE, Null),
                                           WebhookResult(FALSE, Lit("fetch failed"))))
            /\ discord' = [discord EXCEPT ![r] = "confidence-failed"]
            /\ Logs(r, "error", "DEBUG: Confidence webhook failed:")
            /\ UNCHANGED outbound
       ELSE /\ discord' = [discord EXCEPT ![r] =
                            IF o = "non-ok" THEN "confidence-refused" ELSE @]
            /\ IF ConfidencePosted(r) < ConfidencePosts(ipData[r])
               THEN /\ Fetches(r, [to |-> "discord", part |-> "confidence"],
                               "confidence")
                    /\ UNCHANGED <<responses, console>>
               ELSE /\ Responds(r, IpLoggerSuccess(ipData[r],
                                                   WebhookResult(TRUE, Null),
                                                   WebhookResult(TRUE, Null)))
                    /\ Logs(r, "log", "DEBUG: Confidence webhooks sent")
                    /\ UNCHANGED outbound
  /\ UNCHANGED <<headers, geoRes, ipData>>
  /\ KeepsRadius

IpLoggerTextSettles(r) == IpLoggerTextSettlesFrom(r, LoggerTexts)

IpLoggerSteps(r) ==
  \/ IpLoggerPreflight(r)
  \/ IpLoggerMissingKey(r)
  \/ IpLoggerStartFetch(r)
  \/ IpLoggerFetchSettles(r)
  \/ IpLoggerTextSettles(r)
  \/ IpLoggerMainSettles(r)
  \/ IpLoggerMainTextSettles(r)
  \/ IpLoggerConfidenceSettles(r)

(***************************************************************************)
(* log.js, /pages/api/debug-ip.js                                          *)
(***************************************************************************)
\* lines 581-650 and 960: res.status(200).send(html)
HtmlPage == Reply(200, [html |-> TRUE])

\* faulty variant of DebugCatch: the catch block answers with an error
DebugCatchAnswers500 ==
  Reply(500, [success |-> FALSE, error |-> <<"Internal server error">>])

\* lines 962-970: the catch block still returns the page
DebugCatch == HtmlPage

\* lines 803-820: where the ASN number is looked for, in this order
DebugAsnPaths ==
  << <<"autonomousSystemNumber">>, <<"asn">>,
     <<"network", "autonomousSystemNumber">>, <<"network", "asn">>,
     <<"network", "carriers", "0", "asn">>,
     <<"network", "carriers", "0", "asnNumeric">> >>

\* lines 797-823: asnNumber, null when no field is truthy
RECURSIVE asnNumber(_, _)
asnNumber(data, i) ==
  IF i > Len(DebugAsnPaths) THEN Null
  ELSE IF ~Falsy(Opt(data, DebugAsnPaths[i])) THEN Opt(data, DebugAsnPaths[i])
  ELSE asnNumber(data, i + 1)

\* lines 803-805 throw: ipData is null (ipData.autonomousSystemNumber), or
\* the template of the console.log cannot convert the ASN found
DebugBodyThrows(data) ==
  \/ IsNullish(data)
  \/ TemplateThrows(asnNumber(data, 1))

\* lines 796-960 with ipData = data: up to the ASN fetch, or to the reply
DebugAfterGeo(r, data) ==
  /\ ipData' = [ipData EXCEPT ![r] = data]
  /\ IF DebugBodyThrows(data)
     THEN /\ Responds(r, DebugCatch)
          /\ Logs(r, "error", "FATAL ERROR IN DEBUG ENDPOINT:")
          /\ UNCHANGED outbound
     ELSE IF ~Falsy(asnNumber(data, 1))
     THEN /\ Fetches(r, [to |-> "asn"], "asn")
          /\ UNCHANGED <<responses, console>>
     ELSE /\ Responds(r, HtmlPage)
          /\ UNCHANGED <<outbound, console>>

\* lines 577-579
DebugPreflight(r) ==
  /\ Enters(r, "debug-ip")
  /\ method[r] = "OPTIONS"
  /\ Responds(r, Reply(200, [empty |-> TRUE]))
  /\ UNCHANGED <<geoRes, ipData, outbound, console, discord>>
  /\ KeepsRadius

\* lines 676-686
DebugMissingKey(r) ==
  /\ Enters(r, "debug-ip")
  /\ method[r] # "OPTIONS"
  /\ ~env.KEY
  /\ Responds(r, HtmlPage)
  /\ Logs(r, "error", "MISSING BIGDATACLOUD_API_KEY environment variable")
  /\ UNCHANGED <<geoRes, ipData, outbound, discord>>
  /\ KeepsRadius

\* lines 652-700: up to await fetch(GEO_URL)
DebugStartFetch(r) ==
  /\ Enters(r, "debug-ip")
  /\ method[r] # "OPTIONS"
  /\ env.KEY
  /\ Fetches(r, [to |-> "geo"], "geo")
  /\ UNCHANGED <<geoRes, ipData, responses, console, discord>>
  /\ KeepsRadius

\* lines 700-708 and 792-796: the geolocation fetch settles; a Response is
\* read with response.text() whatever its status
DebugFetchSettles(r) ==
  /\ At(r, "debug-ip", "geo")
  /\ \E o \in FetchOutcomes :
       IF o = "rejects"
       THEN /\ DebugAfterGeo(r, EmptyObj)
            /\ UNCHANGED geoRes
       ELSE /\ geoRes' = [geoRes EXCEPT ![r] = [k |-> "response", ok |-> o = "ok"]]
            /\ pc' = [pc EXCEPT ![r] = "geo-text"]
            /\ UNCHANGED <<ipData, responses, outbound, console>>
  /\ UNCHANGED <<headers, discord>>
  /\ KeepsRadius

\* lines 704-796: response.text() settles.  ipData is assigned by line 711
\* before the analysis of lines 720-790 can throw into the catch of line 792
DebugTextSettles(r) ==
  /\ At(r, "debug-ip", "geo-text")
  /\ \/ \E txt \in LoggerTexts :
          DebugAfterGeo(r, IF geoRes[r].ok /\ ~ParseThrows(txt)
                           THEN txt.value ELSE EmptyObj)
     \/ DebugAfterGeo(r, EmptyObj)
  /\ UNCHANGED <<headers, geoRes, discord>>
  /\ KeepsRadius

\* lines 840-869: the ASN fetch settles
DebugAsnSettles(r) ==
  /\ At(r, "debug-ip", "asn")
  /\ \E o \in FetchOutcomes :
       IF o = "rejects"
       THEN /\ Responds(r, HtmlPage)
            /\ Logs(r, "error", "ASN fetch error:")
       ELSE /\ pc' = [pc EXCEPT ![r] = "asn-text"]
            /\ UNCHANGED <<responses, console>>
  /\ UNCHANGED <<headers, geoRes, ipData, outbound, discord>>
  /\ KeepsRadius

\* lines 844-960: asnResponse.text() settles; every throw on the way (the
\* parse, `response` of line 862 not being in scope) is caught at line 865
DebugAsnTextSettles(r) ==
  /\ At(r, "debug-ip", "asn-text")
  /\ Responds(r, HtmlPage)
  /\ \E threw \in BOOLEAN :
       IF threw THEN Logs(r, "error", "ASN fetch error:") ELSE UNCHANGED console
  /\ UNCHANGED <<headers, geoRes, ipData, outbound, discord>>
  /\ KeepsRadius

DebugSteps(r) ==
  \/ DebugPreflight(r)
  \/ DebugMissingKey(r)
  \/ DebugStartFetch(r)
  \/ DebugFetchSettles(r)
  \/ DebugTextSettles(r)
  \/ DebugAsnSettles(r)
  \/ DebugAsnTextSettles(r)

(***************************************************************************)
(* part_001: the variant that collects five BigDataCloud answers           *)
(***************************************************************************)
\* the fetches of lines 41-95, and the await of .json() that follows each
P1Fetches == {"geo", "basic", "timezone", "currency", "threat", "asn-info"}

JsonOf ==
  [ f \in P1Fetches |->
      CASE f = "geo" -> "geo-json"
        [] f = "basic" -> "basic-json"
        [] f = "timezone" -> "timezone-json"
        [] f = "currency" -> "currency-json"
        [] f = "threat" -> "threat-json"
        [] OTHER -> "asn-info-json" ]

FetchOf(at) == CHOOSE f \in P1Fetches : JsonOf[f] = at

\* lines 59-98: the fetch that follows the lookup f with geoData = data;
\* "catch" when the condition of line 60 throws on a null geoData, "none"
\* after the last one
P1NextFetch(f, data) ==
  IF f \in {"geo", "basic"}
  THEN IF IsNullish(data) THEN "catch"
       ELSE IF ~Falsy(Opt(data, <<"location", "latitude">>)) THEN "timezone"
       ELSE IF ~Falsy(Opt(data, <<"country", "isoAlpha2">>)) THEN "currency"
       ELSE "threat"
  ELSE IF f = "timezone"
  THEN IF ~Falsy(Opt(data, <<"country", "isoAlpha2">>)) THEN "currency"
       ELSE "threat"
  ELSE IF f = "currency" THEN "threat"
  ELSE IF f = "threat" THEN "asn-info"
  ELSE "none"

\* lines 195-203
P1Catch ==
  Reply(500, [success |-> FALSE, error |-> <<"error.message">>])

\* lines 104-193 with geoData = data: geoData.ip of line 113 throws on null
P1Finish(r, data) ==
  /\ ipData' = [ipData EXCEPT ![r] = data]
  /\ IF IsNullish(data)
     THEN /\ Responds(r, P1Catch)
          /\ Logs(r, "error", "Server Error:")
          /\ UNCHANGED <<outbound, discord>>
     ELSE IF env.WEBHOOK
     THEN /\ Fetches(r, [to |-> "discord", part |-> "main"], "discord")
          /\ discord' = [discord EXCEPT ![r] = "pending"]
          /\ UNCHANGED <<responses, console>>
     ELSE /\ Responds(r, Reply(200, [success |-> TRUE]))
          /\ UNCHANGED <<outbound, console, discord>>

\* the lookup f is over with geoData = data: the next fetch is issued, or
\* the handler goes on behind the catch of line 99
P1Continue(r, f, data) ==
  IF P1NextFetch(f, data) \in {"catch", "none"}
  THEN P1Finish(r, data)
  ELSE /\ ipData' = [ipData EXCEPT ![r] = data]
       /\ Fetches(r, [to |-> P1NextFetch(f, data)], P1NextFetch(f, data))
       /\ UNCHANGED <<responses, console, discord>>

\* lines 8-10
P1Preflight(r) ==
  /\ Enters(r, "part_001")
  /\ method[r] = "OPTIONS"
  /\ Responds(r, Reply(200, [empty |-> TRUE]))
  /\ UNCHANGED <<geoRes, ipData, outbound, console, discord>>
  /\ KeepsRadius

\* lines 12-43: up to the first fetch.  clientIP is undefined when the
\* request has neither an x-forwarded-for header nor a remote address, and
\* clientIP.includes of line 17 throws into the catch of line 195
P1Start(r) ==
  /\ Enters(r, "part_001")
  /\ method[r] # "OPTIONS"
  /\ \E hasIP \in BOOLEAN :
       IF hasIP
       THEN /\ Fetches(r, [to |-> "geo"], "geo")
            /\ UNCHANGED <<responses, console>>
       ELSE /\ Responds(r, P1Catch)
            /\ Logs(r, "error", "Server Error:")
            /\ UNCHANGED outbound
  /\ UNCHANGED <<geoRes, ipData, discord>>
  /\ KeepsRadius

\* one of the fetches of lines 41-95 settles
P1FetchSettles(r) ==
  /\ route[r] = "part_001"
  /\ pc[r] \in P1Fetches
  /\ \E o \in FetchOutcomes :
       IF o = "rejects"
       THEN /\ P1Finish(r, ipData[r])
            /\ UNCHANGED geoRes
       ELSE IF o = "ok"
       THEN /\ pc' = [pc EXCEPT ![r] = JsonOf[pc[r]]]
            /\ geoRes' = [geoRes EXCEPT ![r] = [k |-> "response", ok |-> TRUE]]
            /\ UNCHANGED <<ipData, responses, outbound, console, discord>>
       ELSE IF pc[r] = "geo"
       THEN /\ Fetches(r, [to |-> "basic"], "basic")
            /\ geoRes' = [geoRes EXCEPT ![r] = [k |-> "response", ok |-> FALSE]]
            /\ UNCHANGED <<ipData, responses, console, discord>>
       ELSE /\ P1Continue(r, pc[r], ipData[r])
            /\ geoRes' = [geoRes EXCEPT ![r] = [k |-> "response", ok |-> FALSE]]
  /\ UNCHANGED headers
  /\ KeepsRadius

\* the .json() of one of the answers settles
P1JsonSettles(r) ==
  /\ route[r] = "part_001"
  /\ pc[r] \in {JsonOf[f] : f \in P1Fetches}
  /\ \/ P1Finish(r, ipData[r])
     \/ /\ pc[r] \in {"geo-json", "basic-json"}
        /\ \E b \in LoggerBodies : P1Continue(r, FetchOf(pc[r]), b)
     \/ /\ pc[r] \notin {"geo-json", "basic-json"}
        /\ P1Continue(r, FetchOf(pc[r]), ipData[r])
  /\ UNCHANGED <<headers, geoRes>>
  /\ KeepsRadius

\* lines 178-193 and 310-320: the POST of sendToDiscord settles; a failure
\* is logged at line 183
P1DiscordSettles(r) ==
  /\ At(r, "part_001", "discord")
  /\ \E o \in FetchOutcomes :
       /\ discord' = [discord EXCEPT ![r] = IF o = "ok" THEN "sent" ELSE "failed"]
       /\ IF o = "ok" THEN UNCHANGED console
          ELSE Logs(r, "error", "Discord webhook error:")
  /\ Responds(r, Reply(200, [success |-> TRUE]))
  /\ UNCHANGED <<headers, geoRes, ipData, outbound>>
  /\ KeepsRadius

P1Steps(r) ==
  \/ P1Preflight(r)
  \/ P1Start(r)
  \/ P1FetchSettles(r)
  \/ P1JsonSettles(r)
  \/ P1DiscordSettles(r)

(***************************************************************************)
(* part_002                                                                *)
(***************************************************************************)
\* lines 121-128
P2Catch ==
  Reply(500, [success |-> FALSE, error |-> <<"error.message">>])

P2Fails(r) ==
  /\ Responds(r, P2Catch)
  /\ Logs(r, "error", "Server Error:")
  /\ UNCHANGED <<outbound, discord>>

\* sendToDiscord throws while building the embed (line 178:
\* data.location.confidence.toUpperCase())
P2EmbedThrows(data) ==
  /\ ~Falsy(Opt(data, <<"location", "confidence">>))
  /\ ~IsString(Opt(data, <<"location", "confidence">>))

\* lines 57-119 with ipData = data
P2Finish(r, data) ==
  IF env.WEBHOOK /\ ~P2EmbedThrows(data)
  THEN /\ Fetches(r, [to |-> "discord", part |-> "main"], "discord")
       /\ discord' = [discord EXCEPT ![r] = "pending"]
       /\ UNCHANGED <<responses, console>>
  ELSE /\ Responds(r, Reply(200, [success |-> TRUE]))
       /\ IF env.WEBHOOK THEN Logs(r, "error", "Failed to send Discord webhook:")
          ELSE UNCHANGED console
       /\ UNCHANGED <<outbound, discord>>

\* lines 8-10
P2Preflight(r) ==
  /\ Enters(r, "part_002")
  /\ method[r] = "OPTIONS"
  /\ Responds(r, Reply(200, [empty |-> TRUE]))
  /\ UNCHANGED <<geoRes, ipData, outbound, console, discord>>
  /\ KeepsRadius

\* lines 12-30: up to the geolocation fetch; clientIP.includes of line 15
\* throws when clientIP is undefined
P2Start(r) ==
  /\ Enters(r, "part_002")
  /\ method[r] # "OPTIONS"
  /\ \E hasIP \in BOOLEAN :
       IF hasIP
       THEN /\ Fetches(r, [to |-> "geo"], "geo")
            /\ UNCHANGED <<responses, console, discord>>
       ELSE P2Fails(r)
  /\ UNCHANGED <<geoRes, ipData>>
  /\ KeepsRadius

\* lines 28-38 and 43-48: the geolocation or the timezone fetch settles
P2FetchSettles(r) ==
  /\ route[r] = "part_002"
  /\ pc[r] \in {"geo", "timezone"}
  /\ \E o \in FetchOutcomes :
       /\ geoRes' = [geoRes EXCEPT ![r] =
            IF o = "rejects" \/ pc[r] = "timezone" THEN @ ELSE Answered(o)]
       /\ IF o = "rejects" THEN P2Fails(r)
          ELSE IF o = "non-ok" /\ pc[r] = "timezone" THEN P2Finish(r, ipData[r])
          ELSE /\ pc' = [pc EXCEPT ![r] =
                    IF pc[r] = "geo" THEN "geo-body" ELSE "timezone-json"]
               /\ UNCHANGED <<responses, outbound, console, discord>>
  /\ UNCHANGED <<headers, ipData>>
  /\ KeepsRadius

\* lines 33-41: geoResponse.json(), or geoResponse.text() of a non-ok
\* answer, settles
P2BodySettles(r) ==
  /\ At(r, "part_002", "geo-body")
  /\ \/ /\ BodyGave(r, "unreadable")
        /\ P2Fails(r)
        /\ UNCHANGED ipData
     \/ /\ ~geoRes[r].ok
        /\ BodyGave(r, "text")
        /\ P2Fails(r)
        /\ UNCHANGED ipData
     \/ /\ geoRes[r].ok
        /\ BodyGave(r, "parsed")
        /\ \E b \in LoggerBodies :
             /\ ipData' = [ipData EXCEPT ![r] = b]
             /\ IF IsNullish(b) THEN P2Fails(r)
                ELSE IF ~Falsy(Opt(b, <<"location", "latitude">>))
                THEN /\ Fetches(r, [to |-> "timezone"], "timezone")
                     /\ UNCHANGED <<responses, console, discord>>
                ELSE P2Finish(r, b)
  /\ UNCHANGED headers
  /\ KeepsRadius

\* lines 46-48: tzResponse.json() settles
P2TimezoneJsonSettles(r) ==
  /\ At(r, "part_002", "timezone-json")
  /\ \/ P2Fails(r)
     \/ P2Finish(r, ipData[r])
  /\ UNCHANGED <<headers, geoRes, ipData>>
  /\ KeepsRadius

\* lines 104-119 and 213-221
P2DiscordSettles(r) ==
  /\ At(r, "part_002", "discord")
  /\ \E o \in FetchOutcomes :
       /\ discord' = [discord EXCEPT ![r] = IF o = "ok" THEN "sent" ELSE "failed"]
       /\ IF o = "ok" THEN UNCHANGED console
          ELSE Logs(r, "error", "Failed to send Discord webhook:")
  /\ Responds(r, Reply(200, [success |-> TRUE]))
  /\ UNCHANGED <<headers, geoRes, ipData, outbound>>
  /\ KeepsRadius

P2Steps(r) ==
  \/ P2Preflight(r)
  \/ P2Start(r)
  \/ P2FetchSettles(r)
  \/ P2BodySettles(r)
  \/ P2TimezoneJsonSettles(r)
  \/ P2DiscordSettles(r)

(***************************************************************************)
(* part_003                                                                *)
(***************************************************************************)
\* faulty variant of FailedToFetch: the catch of lines 52-55 answers as if
\* the lookup had succeeded
FailedToFetchAnswers200 == Reply(200, [success |-> TRUE])

\* lines 52-55
FailedToFetch ==
  Reply(500, [success |-> FALSE, error |-> <<"Failed to fetch data">>])

\* lines 158-166
P3Success(result) == Reply(200, [success |-> TRUE, discord |-> result])

\* a statement of lines 57-138 throws: the template of line 77 on
\* asnNumber, or the template of line 93 on latitude and longitude
P3BodyThrows(data) ==
  \/ /\ ~Falsy(Opt(data, <<"network", "autonomousSystemNumber">>))
     /\ TemplateThrows(Opt(data, <<"network", "autonomousSystemNumber">>))
  \/ /\ ~Falsy(Opt(data, <<"location", "latitude">>))
     /\ ~Falsy(Opt(data, <<"location", "longitude">>))
     /\ \/ TemplateThrows(Opt(data, <<"location", "latitude">>))
        \/ TemplateThrows(Opt(data, <<"location", "longitude">>))

\* lines 57-166 with ipData = data: up to the POST of sendToDiscord, or to
\* the reply
P3AfterParse(r, data) ==
  /\ ipData' = [ipData EXCEPT ![r] = data]
  /\ IF P3BodyThrows(data)
     THEN /\ Responds(r, IpLoggerCatch)
          /\ Logs(r, "error", "Handler error:")
          /\ UNCHANGED <<outbound, discord>>
     ELSE IF ~env.WEBHOOK
     THEN /\ Responds(r, P3Success(NotSent))
          /\ Logs(r, "warn", "DEBUG: DISCORD_WEBHOOK_URL not set")
          /\ UNCHANGED <<outbound, discord>>
     ELSE IF MainEmbedThrows(data)
     THEN /\ Responds(r, P3Success(
                 WebhookResult(FALSE, Lit("toUpperCase is not a function"))))
          /\ Logs(r, "error", "DEBUG: Discord webhook failed:")
          /\ UNCHANGED <<outbound, discord>>
     ELSE /\ Fetches(r, [to |-> "discord", part |-> "main"], "discord")
          /\ discord' = [discord EXCEPT ![r] = "pending"]
          /\ UNCHANGED <<responses, console>>

\* line 7
P3Preflight(r) ==
  /\ Enters(r, "part_003")
  /\ method[r] = "OPTIONS"
  /\ Responds(r, Reply(200, [empty |-> TRUE]))
  /\ UNCHANGED <<geoRes, ipData, outbound, console, discord>>
  /\ KeepsRadius

\* faulty variant of P3MissingKey: a missing key is replaced by a default,
\* as in part_001, and the lookup goes ahead
P3MissingKeyUsesDemo(r) ==
  /\ Enters(r, "part_003")
  /\ method[r] # "OPTIONS"
  /\ ~env.KEY
  /\ Fetches(r, [to |-> "geo"], "geo")
  /\ UNCHANGED <<geoRes, ipData, responses, console, discord>>
  /\ KeepsRadius

\* lines 25-29
P3MissingKey(r) ==
  /\ Enters(r, "part_003")
  /\ method[r] # "OPTIONS"
  /\ ~env.KEY
  /\ Responds(r, Reply(500, [success |-> FALSE,
                             error |-> <<"Missing BIGDATACLOUD_API_KEY">>]))
  /\ Logs(r, "error", "DEBUG: Missing BIGDATACLOUD_API_KEY")
  /\ UNCHANGED <<geoRes, ipData, outbound, discord>>
  /\ KeepsRadius

\* lines 9-39: up to await fetch(GEO_URL)
P3StartFetch(r) ==
  /\ Enters(r, "part_003")
  /\ method[r] # "OPTIONS"
  /\ env.KEY
  /\ Fetches(r, [to |-> "geo"], "geo")
  /\ UNCHANGED <<geoRes, ipData, responses, console, discord>>
  /\ KeepsRadius

\* lines 39-55: the fetch settles; a Response is read with response.text()
\* whatever its status
P3FetchSettles(r) ==
  /\ At(r, "part_003", "geo")
  /\ \E o \in FetchOutcomes :
       IF o = "rejects"
       THEN /\ Responds(r, FailedToFetch)
            /\ Logs(r, "error", "DEBUG: Fetch failed:")
            /\ UNCHANGED geoRes
       ELSE /\ geoRes' = [geoRes EXCEPT ![r] = Answered(o)]
            /\ pc' = [pc EXCEPT ![r] = "geo-text"]
            /\ UNCHANGED <<responses, console>>
  /\ UNCHANGED <<headers, ipData, outbound, discord>>
  /\ KeepsRadius

\* lines 43-55: response.text() settles
P3TextSettles(r) ==
  /\ At(r, "part_003", "geo-text")
  /\ \/ /\ BodyGave(r, "unreadable")
        /\ Responds(r, FailedToFetch)
        /\ Logs(r, "error", "DEBUG: Fetch failed:")
        /\ UNCHANGED <<ipData, outbound, discord>>
     \/ /\ ~geoRes[r].ok
        /\ BodyGave(r, "text")
        /\ Responds(r, Reply(502, [success |-> FALSE,
                                   error |-> <<"API error: ", "status">>]))
        /\ Logs(r, "error", "DEBUG: API error")
        /\ UNCHANGED <<ipData, outbound, discord>>
     \/ /\ geoRes[r].ok
        /\ \E txt \in LoggerTexts :
             IF ParseThrows(txt)
             THEN /\ BodyGave(r, "unparsable")
                  /\ Responds(r, FailedToFetch)
                  /\ Logs(r, "error", "DEBUG: Fetch failed:")
                  /\ UNCHANGED <<ipData, outbound, discord>>
             ELSE /\ BodyGave(r, "parsed")
                  /\ P3AfterParse(r, txt.value)
  /\ UNCHANGED headers
  /\ KeepsRadius

\* lines 141-152 and 285-303: the POST of sendToDiscord settles
P3DiscordSettles(r) ==
  /\ At(r, "part_003", "discord")
  /\ \E o \in FetchOutcomes :
       IF o = "ok"
       THEN /\ Responds(r, P3Success(WebhookResult(TRUE, Null)))
            /\ discord' = [discord EXCEPT ![r] = "sent"]
            /\ Logs(r, "log", "DEBUG: Discord webhook sent successfully")
       ELSE IF o = "non-ok"
       THEN /\ pc' = [pc EXCEPT ![r] = "discord-text"]
            /\ UNCHANGED <<responses, console, discord>>
       ELSE /\ Responds(r, P3Success(WebhookResult(FALSE, Lit("fetch failed"))))
            /\ discord' = [discord EXCEPT ![r] = "failed"]
            /\ Logs(r, "error", "DEBUG: Discord webhook failed:")
  /\ UNCHANGED <<headers, geoRes, ipData, outbound>>
  /\ KeepsRadius

\* lines 294-303: response.text() of the non-ok Discord answer settles, and
\* sendToDiscord throws either way
P3DiscordTextSettles(r) ==
  /\ At(r, "part_003", "discord-text")
  /\ \E resolved \in BOOLEAN :
       Responds(r, P3Success(
           WebhookResult(FALSE, IF resolved
                                THEN Lit("Discord API responded with status")
                                ELSE Lit("body unreadable"))))
  /\ discord' = [discord EXCEPT ![r] = "failed"]
  /\ Logs(r, "error", "DEBUG: Discord webhook failed:")
  /\ UNCHANGED <<headers, geoRes, ipData, outbound>>
  /\ KeepsRadius

P3Steps(r) ==
  \/ P3Preflight(r)
  \/ P3MissingKey(r)
  \/ P3StartFetch(r)
  \/ P3FetchSettles(r)
  \/ P3TextSettles(r)
  \/ P3DiscordSettles(r)
  \/ P3DiscordTextSettles(r)

(***************************************************************************)
(* The specification SpecVariants: one request to any of the variants      *)
(***************************************************************************)
Variants ==
  {"part_000", "ip-logger", "debug-ip", "part_001", "part_002", "part_003"}

\* one request to one of the variants, of any method, under any environment
InitVariants ==
  /\ env \in [KEY : BOOLEAN, WEBHOOK : BOOLEAN]
  /\ \E m \in Methods : method = [r \in Reqs |-> IF r = 1 THEN m ELSE "GET"]
  /\ \E h \in Variants : SlotsServedBy({1}, h)
  /\ NoCaller

NextVariants ==
  \/ NextB
  \/ \E r \in Reqs :
       \/ IpLoggerSteps(r)
       \/ DebugSteps(r)
       \/ P1Steps(r)
       \/ P2Steps(r)
       \/ P3Steps(r)

SpecVariants == InitVariants /\ [][NextVariants]_vars

\* every promise a handler awaits settles, so an invocation that can take a
\* step eventually takes one
FairVariants == SpecVariants /\ WF_vars(NextVariants)


(***************************************************************************)
(* Claims about the handler variants (under SpecVariants / FairVariants)   *)
(***************************************************************************)
\* the outbound requests of request r that go to the Discord webhook
ToDiscord(r) == { i \in 1..Len(outbound[r]) : outbound[r][i].to = "discord" }

\* C14: the debug-ip handler never sends any request to the Discord webhook,
\* and for every non-OPTIONS request it responds with status 200 and the
\* HTML page, whatever happens: missing API key, geolocation or ASN fetch
\* non-ok, fetch or JSON parse exception, or any error thrown while logging.
C14_DebugNeverNotifiesAlwaysPage ==
  \A r \in Reqs :
    route[r] = "debug-ip"
    => /\ ToDiscord(r) = {}
       /\ discord[r] = "none"
       /\ method[r] # "OPTIONS"
          => /\ \A i \in 1..Len(responses[r]) :
                  /\ responses[r][i].status = 200
                  /\ responses[r][i].body = [html |-> TRUE]
             /\ Returned(r) => Len(responses[r]) = 1

\* a debug request whose body made the handler throw outside the inner try
\* blocks was answered with the page, the webhook being configured
C14_Witness ==
  \E r \in Reqs :
    /\ route[r] = "debug-ip"
    /\ env.WEBHOOK
    /\ Returned(r)
    /\ ipData[r] = Null
    /\ responses[r] = <<[status |-> 200, body |-> [html |-> TRUE]]>>
    /\ \E i \in 1..Len(console[r]) :
         console[r][i].text = "FATAL ERROR IN DEBUG ENDPOINT:"

C19_PreflightOnlyAnswers ==
  \A r \in Reqs :
    (method[r] = "OPTIONS" /\ pc[r] # "idle")
    => /\ outbound[r] = <<>>
       /\ discord[r] = "none"
       /\ pc[r] \in {"start", "done"}
       /\ Returned(r)
          => /\ responses[r] = <<[status |-> 200, body |-> [empty |-> TRUE]]>>
             /\ headers[r] = { "Access-Control-Allow-Origin",
                               "Access-Control-Allow-Methods",
                               "Access-Control-Allow-Headers" }

C19_Witness ==
  \E r \in Reqs :
    /\ method[r] = "OPTIONS"
    /\ route[r] = "part_003"
    /\ env.KEY
    /\ env.WEBHOOK
    /\ Returned(r)
    /\ responses[r] = <<[status |-> 200, body |-> [empty |-> TRUE]]>>
    /\ outbound[r] = <<>>

\* C20: in the log.js ip-logger, part_000 and part_003 handlers, a
\* non-OPTIONS request arriving when BIGDATACLOUD_API_KEY is unset is
\* answered with status 500 and error 'Missing BIGDATACLOUD_API_KEY', and no
\* outbound request (geolocation or webhook) is made during that request.
C20_MissingKeyAnswers500 ==
  \A r \in Reqs :
    ( /\ route[r] \in {"ip-logger", "part_000", "part_003"}
      /\ method[r] # "OPTIONS"
      /\ pc[r] # "idle"
      /\ ~env.KEY )
    => /\ outbound[r] = <<>>
       /\ discord[r] = "none"
       /\ pc[r] \in {"start", "done"}
       /\ Returned(r)
          => responses[r] =
               <<[status |-> 500,
                  body |-> [success |-> FALSE,
                            error |-> <<"Missing BIGDATACLOUD_API_KEY">>]]>>

C20_Witness ==
  \E r \in Reqs :
    /\ route[r] = "part_003"
    /\ method[r] = "POST"
    /\ ~env.KEY
    /\ env.WEBHOOK
    /\ Returned(r)
    /\ Len(responses[r]) = 1
    /\ responses[r][1].status = 500
    /\ outbound[r] = <<>>

(***************************************************************************)
(* The geolocation lookup and the Discord webhook in the log.js ip-logger, *)
(* part_002 and part_003                                                   *)
(***************************************************************************)
Loggers == {"ip-logger", "part_002", "part_003"}

\* request r has sent its geolocation fetch
GeoAsked(r) == \E i \in 1..Len(outbound[r]) : outbound[r][i].to = "geo"

\* the geolocation fetch of request r rejected
GeoThrew(r) == GeoAsked(r) /\ pc[r] # "geo" /\ geoRes[r].k = "none"

\* the geolocation fetch of request r resolved with a non-ok status
GeoNonOk(r) == geoRes[r].k = "response" /\ ~geoRes[r].ok

\* the geolocation fetch of request r resolved ok and reading its body gave
\* what
GeoOkBody(r, what) ==
  geoRes[r].k = "response" /\ geoRes[r].ok /\ geoRes[r].body \in what

\* request r has returned with the one response of the given status and has
\* sent nothing to the Discord webhook
FailedWith(r, status) ==
  /\ Len(responses[r]) = 1
  /\ responses[r][1].status = status
  /\ ToDiscord(r) = {}

\* C21 as stated: in the log.js ip-logger, part_002 and part_003 a Discord
\* webhook POST happens only in requests whose geolocation fetch returned ok
\* and parsed; a non-ok geolocation answer ends in 502 (ip-logger, part_003)
\* or 500 (part_002), a rejected fetch or a body that cannot be read or
\* parsed ends in 500, and in all those cases no webhook is sent.
C21_WebhookOnlyAfterParsedLookup ==
  \A r \in Reqs :
    route[r] \in Loggers =>
      /\ ToDiscord(r) # {} => GeoOkBody(r, {"parsed"})
      /\ Returned(r) =>
           /\ GeoThrew(r) => FailedWith(r, 500)
           /\ GeoNonOk(r) =>
                FailedWith(r, IF route[r] = "part_002" THEN 500 ELSE 502)
           /\ GeoOkBody(r, {"unreadable", "unparsable"}) => FailedWith(r, 500)

\* C21 amended: as above, except that part_003 reads the body of a non-ok
\* answer before replying (lines 43-46), so its 502 is sent only when that
\* body could be read; when response.text() rejects the catch of lines
\* 52-55 replies 500.  No webhook is sent in either case.
C21_WebhookOnlyAfterParsedLookupBodyRead ==
  \A r \in Reqs :
    route[r] \in Loggers =>
      /\ ToDiscord(r) # {} => GeoOkBody(r, {"parsed"})
      /\ Returned(r) =>
           /\ GeoThrew(r) => FailedWith(r, 500)
           /\ GeoNonOk(r) =>
                FailedWith(r, IF route[r] = "part_002" THEN 500
                              ELSE IF route[r] = "part_003"
                                      /\ geoRes[r].body = "unreadable" THEN 500
                              ELSE 502)
           /\ GeoOkBody(r, {"unreadable", "unparsable"}) => FailedWith(r, 500)

\* a part_003 request whose geolocation answer was non-ok and whose body
\* could not be read has returned 500, with the webhook configured and
\* nothing sent to it
C21_Witness ==
  \E r \in Reqs :
    /\ route[r] = "part_003"
    /\ env.WEBHOOK
    /\ Returned(r)
    /\ GeoNonOk(r)
    /\ geoRes[r].body = "unreadable"
    /\ FailedWith(r, 500)

(***************************************************************************)
(* Failures of the Discord webhook                                         *)
(***************************************************************************)
\* a POST to the Discord webhook made for request r was rejected or answered
\* with a non-ok status
MainWebhookFailed(r) == discord[r] = "failed"
ConfidenceWebhookFailed(r) ==
  discord[r] \in {"confidence-failed", "confidence-refused"}

\* the webhook result res records a failure
RecordsFailure(res) == res.sent = FALSE /\ res.error # Null

\* request r has returned the 200 success response
Ends200(r) ==
  /\ Len(responses[r]) = 1
  /\ responses[r][1].status = 200
  /\ responses[r][1].body.success = TRUE

\* C22: a failure of the Discord webhook (rejected fetch or non-ok status)
\* never changes the caller's response: the handler still responds 200 with
\* success true, and in log.js and part_003 the failure is recorded as
\* sent = false with the error message in the response's webhook result.
C22_WebhookFailureRecorded ==
  \A r \in Reqs :
    ( /\ route[r] \in {"ip-logger", "part_001", "part_002", "part_003"}
      /\ Returned(r)
      /\ MainWebhookFailed(r) \/ ConfidenceWebhookFailed(r) )
    => /\ Ends200(r)
       /\ (route[r] = "ip-logger" /\ MainWebhookFailed(r))
            => RecordsFailure(responses[r][1].body.webhooks.main)
       /\ (route[r] = "ip-logger" /\ ConfidenceWebhookFailed(r))
            => RecordsFailure(responses[r][1].body.webhooks.confidence)
       /\ route[r] = "part_003"
            => RecordsFailure(responses[r][1].body.discord)

(***************************************************************************)
(* The confidence webhooks of the log.js ip-logger                         *)
(***************************************************************************)
\* the positions in outbound[r] of the POSTs of part
PostsOf(r, part) ==
  { i \in ToDiscord(r) : outbound[r][i].part = part }

\* request r has returned the success response of lines 290-303, which
\* carries the webhook results
RepliedWebhooks(r) ==
  /\ Returned(r)
  /\ Len(responses[r]) = 1
  /\ responses[r][1].status = 200
  /\ "webhooks" \in DOMAIN responses[r][1].body

\* C23: in the log.js ip-logger the confidence webhooks are sent only after
\* the main webhook POST has completed successfully, and only when the
\* confidence area has at least one valid coordinate; if the main webhook
\* fails, no confidence POST is made, webhooks.confidence.sent stays false
\* and webhooks.main.error holds the failure.
C23_ConfidenceOnlyAfterMain ==
  \A r \in Reqs :
    route[r] = "ip-logger" =>
      /\ PostsOf(r, "confidence") # {} =>
           /\ \E j \in PostsOf(r, "main") :
                \A i \in PostsOf(r, "confidence") : j < i
           /\ discord[r] \notin {"none", "pending", "failed"}
           /\ confidenceData(ipData[r]).validPointCount >= 1
           /\ Returned(r) => responses[r][1].body.webhooks.main.sent = TRUE
      /\ ( /\ RepliedWebhooks(r)
           /\ env.WEBHOOK
           /\ responses[r][1].body.webhooks.main.sent = FALSE )
         => /\ PostsOf(r, "confidence") = {}
            /\ responses[r][1].body.webhooks.confidence = NotSent
            /\ responses[r][1].body.webhooks.main.error # Null
      /\ MainWebhookFailed(r) =>
           /\ PostsOf(r, "confidence") = {}
           /\ Returned(r) =>
                /\ Ends200(r)
                /\ responses[r][1].body.webhooks.main.sent = FALSE

\* an ip-logger request whose confidence area has valid coordinates has
\* returned after its main webhook POST failed, with no confidence POST
C23_Witness ==
  \E r \in Reqs :
    /\ route[r] = "ip-logger"
    /\ Returned(r)
    /\ MainWebhookFailed(r)
    /\ confidenceData(ipData[r]).validPointCount >= 1
    /\ PostsOf(r, "main") # {}
    /\ PostsOf(r, "confidence") = {}
    /\ RecordsFailure(responses[r][1].body.webhooks.main)

(***************************************************************************)
(* The specification SpecConfidence: one request to the log.js ip-logger,  *)
(* whose provider answers with any confidence area                         *)
(***************************************************************************)
\* a point with a third entry: [-122, 37, 10]
WithAltitude ==
  Arr(<< Arr(<<Deg(-122), Deg(37), Deg(10)>>),
         Arr(<<Deg(5)>>),
         PairOf(Deg(-80), Deg(37)) >>)

\* the values ipData.confidenceArea is drawn from
AreaInputs == PolygonInputs \cup {WithAltitude}

AreaTexts ==
  { [kind |-> "json",
     value |-> Obj([confidence |-> High, confidenceArea |-> a])] :
      a \in AreaInputs }

InitConfidence ==
  /\ env \in [KEY : BOOLEAN, WEBHOOK : BOOLEAN]
  /\ \E m \in Methods : method = [r \in Reqs |-> IF r = 1 THEN m ELSE "GET"]
  /\ SlotsServedBy({1}, "ip-logger")
  /\ NoCaller

NextConfidence ==
  \E r \in Reqs :
    \/ IpLoggerPreflight(r)
    \/ IpLoggerMissingKey(r)
    \/ IpLoggerStartFetch(r)
    \/ IpLoggerFetchSettles(r)
    \/ IpLoggerTextSettlesFrom(r, AreaTexts)
    \/ IpLoggerMainSettles(r)
    \/ IpLoggerMainTextSettles(r)
    \/ IpLoggerConfidenceSettles(r)

SpecConfidence == InitConfidence /\ [][NextConfidence]_vars

\* the confidence area the provider sent to request r (line 65)
confidenceArea(r) == OrNull(Opt(ipData[r], <<"confidenceArea">>))

\* request r has got past the processing of lines 82-158
Processed(r) ==
  /\ route[r] = "ip-logger"
  /\ geoRes[r].k = "response"
  /\ geoRes[r].ok
  /\ geoRes[r].body = "parsed"

\* an array of length >= 2 whose first two entries are non-NaN numbers with
\* |entry[1]| <= 90 and |entry[0]| <= 180
ValidEntry(e) ==
  /\ e.k = "arr"
  /\ Len(e.items) >= 2
  /\ \A n \in 1..2 : IsNumber(e.items[n]) /\ e.items[n].k # "nan"
  /\ e.items[2].k = "num" /\ Abs(e.items[2].v) <= 90 * NumScale
  /\ e.items[1].k = "num" /\ Abs(e.items[1].v) <= 180 * NumScale

\* the positions of the valid entries of items
ValidPositions(items) == { i \in 1..Len(items) : ValidEntry(items[i]) }

\* coordinates is the subsequence of the valid entries of items, in the
\* original order and each with its original index
IsValidSubsequence(coordinates, items) ==
  /\ Len(coordinates) = Cardinality(ValidPositions(items))
  /\ \A n \in 1..Len(coordinates) :
       /\ coordinates[n].index + 1 \in ValidPositions(items)
       /\ coordinates[n].longitude = items[coordinates[n].index + 1].items[1]
       /\ coordinates[n].latitude = items[coordinates[n].index + 1].items[2]
       /\ n > 1 => coordinates[n - 1].index < coordinates[n].index

\* confidenceData c describes the array area as specified
SkipsInvalidPoints(c, area) ==
  /\ IsValidSubsequence(c.coordinates, area.items)
  /\ c.validPointCount = Len(c.coordinates)
  /\ c.pointCount = Len(area.items)
  /\ c.validPointCount <= c.pointCount
  /\ (c.bounds # Null) <=> (c.validPointCount > 0)
  /\ (c.statistics # Null) <=> (c.validPointCount > 0)

\* C24: the log.js ip-logger silently skips invalid confidence-area points
\* instead of failing: for any array confidenceArea, coordinates is exactly
\* the subsequence, in original order and with each element's original
\* index, of the elements that are arrays of length >= 2 whose first two
\* entries are non-NaN numbers with |entry[1]| <= 90 and |entry[0]| <= 180;
\* validPointCount equals coordinates.length and is <= pointCount =
\* confidenceArea.length; bounds and statistics are non-null exactly when
\* validPointCount > 0.  The request is answered 200 with these counts.
C24_InvalidPointsSkipped ==
  \A r \in Reqs :
    (Processed(r) /\ confidenceArea(r).k = "arr") =>
      /\ SkipsInvalidPoints(confidenceData(ipData[r]), confidenceArea(r))
      /\ Returned(r) =>
           /\ RepliedWebhooks(r)
           /\ responses[r][1].body.confidence =
                ConfidenceSummary(confidenceData(ipData[r]))
           /\ responses[r][1].body.confidence.validPoints
                = Cardinality(ValidPositions(confidenceArea(r).items))

\* a request has been answered for an area that mixes valid and invalid
\* points, the valid ones not first
C24_Witness ==
  \E r \in Reqs :
    /\ Processed(r)
    /\ Returned(r)
    /\ confidenceArea(r).k = "arr"
    /\ Len(confidenceArea(r).items) = 3
    /\ ValidPositions(confidenceArea(r).items) = {1, 3}
    /\ responses[r][1].body.confidence.validPoints = 2
    /\ responses[r][1].body.confidence.pointCount = 3
    /\ responses[r][1].body.confidence.bounds # Null

=============================================================================
